---- MODULE Spec2Model ----
(***************************************************************************)
(* Multiplayer Asteroids over SSH: the authoritative server loop           *)
(* (internal/loop/server), the per-connection client loop                  *)
(* (internal/loop/client) and the keyboard input stream (internal/input).  *)
(*                                                                         *)
(* Time is counted in whole seconds: a tick whose Delta is one second.     *)
(* Positions are not part of the state; the collision phase draws the      *)
(* current position of every collidable entity from Pos and evaluates the  *)
(* geometric tests of internal/physics on them (lengths in tenths).        *)
(* Particles are cosmetic entities that no handle, channel or collision    *)
(* refers to; they carry no identity here, the world keeps their number.   *)
(* No particle outlives a tick: the longest Lifetime is one second.        *)
(***************************************************************************)
EXTENDS Integers, Sequences, FiniteSets, TLC

(***************************************************************************)
(* Bounds of the model.                                                    *)
(***************************************************************************)
NumClients == 2
InputChanCap == 2
RegisterChCap == 1
UnregisterChCap == 1
EventsChCap == 1
MaxProjectiles == 1
MaxObjIds == 14
AsteroidTarget == 12
StreamChCap == 2
MaxBytes == 3
\* the timeout handed to Shutdown, in periods of its 200 ms ticker
ShutdownTimeout == 3
\* the most bytes accumulated in a ChunkWriter between two Flush calls
MaxAccum == 10000
\* the terminal: its columns and rows, and the most cells of a canvas on it
MaxTermCols == 2
MaxTermRows == 2
MaxCells == 2
\* the score up to which a client's score is counted; higher scores count as this
MaxScore == 100

(***************************************************************************)
(* Program constants.                                                      *)
(***************************************************************************)
ScoreLargeAsteroid == 20
ScoreMediumAsteroid == 50
ScoreSmallAsteroid == 100
InvincibilitySeconds == 3
InitialLives == 3
InactivityWarnUser == 90
InactivityDisconnectUser == 120
ProjectileLifetime == 2
SpawnProtectionTime == 3
AsteroidSmall == 1
AsteroidMedium == 2
AsteroidLarge == 3
batchThreshold == 12
largeAsteroidValue == 4
minimapWidth == 20
minimapHeight == 10
DeathParticles == 20
maxChunkSize == 1400
cellEmpty == 0
cellUpper == 1
cellLower == 2
cellFull == 3
cellStateMask == 3
cellDirtyBit == 4
bufwSize == 8192
ProjectileRadius == 5
Delta == 1

ClientIds == 1..NumClients
ObjIds == 1..MaxObjIds
Nil == 0

Range(s) == {s[i] : i \in 1..Len(s)}

Min(a, b) == IF a < b THEN a ELSE b

Max(a, b) == IF a > b THEN a ELSE b

RECURSIVE FoldL(_, _, _)
FoldL(Op(_, _), acc, s) ==
  IF s = <<>> THEN acc ELSE FoldL(Op, Op(acc, Head(s)), Tail(s))

\* every order in which a Go map of the given keys can be ranged over
Orders(S) == {p \in [1..Cardinality(S) -> S] : \A i, j \in 1..Cardinality(S) : i # j => p[i] # p[j]}

(***************************************************************************)
(* input.Input, reduced to the keys the loops act on.                      *)
(***************************************************************************)
EmptyInput == [Space |-> FALSE, Quit |-> FALSE, Pressed |-> FALSE]

SpaceInput == [Space |-> TRUE, Quit |-> FALSE, Pressed |-> TRUE]

QuitInput == [Space |-> FALSE, Quit |-> TRUE, Pressed |-> TRUE]

Inputs == {EmptyInput, SpaceInput, QuitInput}

(***************************************************************************)
(* server.ClientEvent                                                      *)
(***************************************************************************)
EventPlayerDied == [Type |-> "EventPlayerDied", ScoreAdd |-> 0]

EventServerShutdown == [Type |-> "EventServerShutdown", ScoreAdd |-> 0]

EventScoreAdd(n) == [Type |-> "EventScoreAdd", ScoreAdd |-> n]

(***************************************************************************)
(* Entities.  One record shape for every object.Object variant.            *)
(***************************************************************************)
NoObj == [kind |-> "none", OwnerID |-> 0, Size |-> 0, Destroyed |-> FALSE, Lifetime |-> 0, SpawnProtection |-> 0, target |-> 0]

NewAsteroidSpawner(target) == [NoObj EXCEPT !.kind = "spawner", !.target = Max(target, 0)]

NewUser(clientID) == [NoObj EXCEPT !.kind = "ship", !.OwnerID = clientID]

NewProjectile(ownerID) == [NoObj EXCEPT !.kind = "proj", !.OwnerID = ownerID, !.Lifetime = ProjectileLifetime]

NewAsteroid(size) == [NoObj EXCEPT !.kind = "ast", !.Size = size]

NewAsteroidRandom(size, spawnProtection) == [NewAsteroid(size) EXCEPT !.SpawnProtection = spawnProtection]

\* a world without particles
NoParticles == [Objects |-> 0, toSpawn |-> 0]

NoHandle == [ID |-> 0, Player |-> Nil, Input |-> EmptyInput, EventsCh |-> <<>>, closed |-> FALSE, InvincibleTime |-> 0]

VARIABLES
  srvPc,         \* position of Server.Run
  ctxDone,       \* the server context has been cancelled
  clients,       \* Server.clients: the ids in the registry
  handles,       \* the ClientHandle objects, by id
  nextClientID,
  inputChan, registerCh, unregisterCh,
  mu,            \* Server.mu is held across steps (by collectInputs)
  objs,          \* the entities, by identity
  Objects,       \* WorldState.Objects
  toSpawn,       \* WorldState.toSpawn
  AsteroidCount, \* WorldState.AsteroidCount
  particles,     \* how many Particle entities are in WorldState.Objects and in toSpawn
  ctxInput,      \* UpdateContext.Input handed to each ship in the last updateWorld
  snapshot,      \* Server.snapshot: the published WorldSnapshot
  snapshotBufs,  \* Server.snapshotBufs: capacity of the array behind each buffer
  snapshotIdx,
  arrays,        \* the backing arrays of the snapshot buffers, by <<index, capacity>>
  mainPc,        \* position of main around Shutdown and cancelServer
  cliPc,         \* position of each client task in NewClient / Client.Run
  cli,           \* Client.handle and ClientState of each client task
  held,          \* the snapshot a client task is drawing from
  InitialAsteroidTarget, \* config.InitialAsteroidTarget of the build
  rendering,     \* some task of the run reads snapshots
  streamCh,      \* Stream.ch: the bytes in the channel
  streamClosed,  \* Stream.ch has been closed
  readerPc,      \* position of the goroutine of StartStream
  readerByte,    \* the byte that goroutine has read and not yet sent
  bytesRead,     \* how many bytes the connection has delivered
  riPc,          \* position of the task that calls ReadInput
  buf,           \* buf of the running ReadInput call
  keyState,      \* Stream.state: the keys stamped by the last ReadInput call
  lastInput,     \* the Input the last ReadInput call returned
  elapsed,       \* Shutdown: the ticker periods gone by since its timers were made
  tickerC,       \* Shutdown: a tick waits in ticker.C
  cwPc,          \* position of the task that uses the ChunkWriter
  cwBuf,         \* ChunkWriter.buf: how many bytes it holds
  data,          \* Flush: the bytes of data still to write, as [off, len]
  bufw,          \* ChunkWriter.bufw: the bytes it buffers, as [off, len]
  connWrites,    \* the Write calls the connection got during the last Flush, as [off, len]
  cvPc,          \* the task that draws: drawing, or just rendered (restored: over text)
  termWidth,     \* Canvas.termWidth
  termHeight,    \* Canvas.termHeight
  pixels,        \* Canvas.pixels, pixels[y * termWidth + x + 1] for the sub-pixel (x, y)
  prevCells,     \* Canvas.prevCells, packed
  forceRedraw,   \* Canvas.forceRedraw
  renderBuf,     \* Canvas.renderBuf: the cursor positions and glyphs of the last Render
  screen,        \* what the terminal shows in each of its cells, by <<row, col>>
  wrapPos,       \* a Screen and the coordinates handed to its WrapPosition
  grid,          \* a SpatialGrid
  gridEnts,      \* the slice whose indices the grid stores: positions and radii
  calls,         \* the calls of fn by the last QueryAround
  overlay,       \* a client's terminal and state, and the cursor positions of its last drawUI
  cam            \* a camera, a view, a world and an object, and the last WorldToScreen of it

vars == <<srvPc, ctxDone, clients, handles, nextClientID, inputChan, registerCh, unregisterCh, mu, objs, Objects, toSpawn, AsteroidCount, particles, ctxInput, snapshot, snapshotBufs, snapshotIdx, arrays, mainPc, cliPc, cli, held, InitialAsteroidTarget, rendering, streamCh, streamClosed, readerPc, readerByte, bytesRead, riPc, buf, keyState, lastInput, elapsed, tickerC, cwPc, cwBuf, data, bufw, connWrites, cvPc, termWidth, termHeight, pixels, prevCells, forceRedraw, renderBuf, screen, wrapPos, grid, gridEnts, calls, overlay, cam>>

serverVars == <<srvPc, clients, mu, ctxInput>>

worldVars == <<objs, Objects, toSpawn, AsteroidCount, particles>>

snapVars == <<snapshot, snapshotBufs, snapshotIdx, arrays>>

chanVars == <<inputChan, registerCh, unregisterCh>>

clientVars == <<cliPc, cli, held>>

streamVars == <<streamCh, streamClosed, readerPc, readerByte, bytesRead, riPc, buf, keyState, lastInput>>

timerVars == <<elapsed, tickerC>>

\* what neither the server loop nor the sessions write
chunkVars == <<cwPc, cwBuf, data, bufw, connWrites>>

\* what the task that uses the ChunkWriter leaves alone
physVars == <<wrapPos, grid, gridEnts, calls, overlay, cam>>

\* the server, the sessions and their streams
sessionVars == <<serverVars, ctxDone, handles, nextClientID, chanVars, worldVars, snapVars, mainPc, clientVars, InitialAsteroidTarget, rendering, streamVars, timerVars>>

gameVars == <<sessionVars, physVars>>

canvasVars == <<cvPc, termWidth, termHeight, pixels, prevCells, forceRedraw, renderBuf, screen>>

restVars == <<InitialAsteroidTarget, rendering, streamVars, timerVars, chunkVars, canvasVars, physVars>>

(***************************************************************************)
(* World state helpers (WorldState in collision.go).  The operators below  *)
(* work on a record w = [objs, Objects, toSpawn, handles, AsteroidCount,   *)
(* ...] that stands for the memory a task works on while it holds          *)
(* Server.mu; w.overflow: an allocation found no free identity, w.panic: a *)
(* send on a closed channel, w.blocked: a send that cannot complete.       *)
(***************************************************************************)
asteroidWeight(o) ==
  IF o.kind # "ast" \/ o.Destroyed THEN 0
  ELSE CASE o.Size = AsteroidLarge -> 4
         [] o.Size = AsteroidMedium -> 2
         [] o.Size = AsteroidSmall -> 1
         [] OTHER -> 0

\* allocation of a new entity: an identity nothing refers to
FreeIds(w, pinned) == ObjIds \ (Range(w.Objects) \cup Range(w.toSpawn) \cup pinned)

FreshId(w, pinned) == CHOOSE i \in FreeIds(w, pinned) : \A j \in FreeIds(w, pinned) : i <= j

AddObject(w, o, pinned) ==
  IF FreeIds(w, pinned) = {} THEN [w EXCEPT !.overflow = TRUE]
  ELSE LET id == FreshId(w, pinned) IN
       [w EXCEPT !.objs[id] = o,
                 !.Objects = Append(@, id),
                 !.AsteroidCount = @ + asteroidWeight(o)]

RemoveObject(w, id) == [w EXCEPT !.AsteroidCount = @ - asteroidWeight(w.objs[id])]

WorldSpawn(w, o, pinned) ==
  IF FreeIds(w, pinned) = {} THEN [w EXCEPT !.overflow = TRUE]
  ELSE LET id == FreshId(w, pinned) IN
       [w EXCEPT !.objs[id] = o, !.toSpawn = Append(@, id)]

FlushSpawned(w) ==
  LET add(n, id) == n + asteroidWeight(w.objs[id]) IN
  [w EXCEPT !.AsteroidCount = FoldL(add, @, w.toSpawn),
            !.Objects = @ \o w.toSpawn,
            !.toSpawn = <<>>,
            !.particles = [Objects |-> @.Objects + @.toSpawn, toSpawn |-> 0]]

removeObjectLocked(w, target) ==
  LET w1 == RemoveObject(w, target) IN
  [w1 EXCEPT !.Objects = SelectSeq(@, LAMBDA id : id # target)]

\* select { case ch <- ev: default: }
TrySend(h, ev) ==
  IF Len(h.EventsCh) < EventsChCap THEN [h EXCEPT !.EventsCh = Append(@, ev)] ELSE h

\* a faulty event send: a plain ch <- ev, which waits while the channel is full
SendEventBlocking(w, id, ev) ==
  IF w.handles[id].closed THEN [w EXCEPT !.panic = TRUE]
  ELSE IF Len(w.handles[id].EventsCh) < EventsChCap
       THEN [w EXCEPT !.handles[id].EventsCh = Append(@, ev)]
       ELSE [w EXCEPT !.blocked = TRUE]

SendEvent(w, id, ev) ==
  IF w.handles[id].closed THEN [w EXCEPT !.panic = TRUE]
  ELSE [w EXCEPT !.handles[id] = TrySend(@, ev)]

(***************************************************************************)
(* Entity updates (internal/object).                                       *)
(***************************************************************************)
ProjectileCount(w) ==
  Cardinality({id \in Range(w.Objects) \cup Range(w.toSpawn) : w.objs[id].kind = "proj"})

\* User.Update: the ship fires when Space is held and the cooldown has run
\* out, which with FireRate = 0.15 s it has at every one-second tick.
UserUpdate(w, id, input, pinned) ==
  IF input.Space /\ ProjectileCount(w) < MaxProjectiles
  THEN WorldSpawn(w, NewProjectile(w.objs[id].OwnerID), pinned)
  ELSE w

countActiveAsteroids(w, ctxObjects) ==
  LET add(n, id) ==
        IF w.objs[id].kind = "ast" /\ ~w.objs[id].Destroyed
        THEN n + (CASE w.objs[id].Size = AsteroidLarge -> 4
                    [] w.objs[id].Size = AsteroidMedium -> 2
                    [] w.objs[id].Size = AsteroidSmall -> 1
                    [] OTHER -> 0)
        ELSE n
  IN FoldL(add, 0, ctxObjects)

RECURSIVE SpawnBatch(_, _, _, _)
SpawnBatch(w, target, count, pinned) ==
  IF target - count >= batchThreshold /\ ~w.overflow
  THEN SpawnBatch(WorldSpawn(w, NewAsteroidRandom(AsteroidLarge, SpawnProtectionTime), pinned),
                  target, count + largeAsteroidValue, pinned)
  ELSE w

\* a faulty spawner: it spawns as soon as anything is missing from the target
AsteroidSpawnerUpdateEager(w, target, ctxObjects, pinned) ==
  IF target = 0 THEN w
  ELSE SpawnBatch(w, target + batchThreshold - 1, countActiveAsteroids(w, ctxObjects), pinned)
\* AsteroidSpawner.Update; it never asks to be removed
AsteroidSpawnerUpdate(w, target, ctxObjects, pinned) ==
  IF target = 0 THEN w
  ELSE LET count == countActiveAsteroids(w, ctxObjects) IN
       IF count >= target THEN w ELSE SpawnBatch(w, target, count, pinned)

\* Projectile.Update: [w, remove]
ProjectileUpdate(w, id) ==
  LET w1 == [w EXCEPT !.objs[id].Lifetime = @ - Delta] IN
  [w |-> w1, remove |-> w1.objs[id].Lifetime <= 0]

\* SpawnExplosion: count particles are handed to the Spawner
SpawnExplosion(w, count) == [w EXCEPT !.particles.toSpawn = @ + count]

\* Particle.Update of every particle in Objects: its Lifetime, at most one
\* second, is over after a tick, and it is removed
ParticlesUpdate(w) == [w EXCEPT !.particles.Objects = 0]

\* a faulty Asteroid.Update: a destroyed asteroid releases one fragment
AsteroidUpdateOneFragment(w, id, pinned) ==
  LET a == w.objs[id]
      w0 == SpawnExplosion(w, a.Size * 4)
  IN
  IF a.Destroyed
  THEN [w |-> IF a.Size > AsteroidSmall THEN WorldSpawn(w0, NewAsteroid(a.Size - 1), pinned) ELSE w0,
        remove |-> TRUE]
  ELSE [w |-> [w EXCEPT !.objs[id].SpawnProtection = IF @ > 0 THEN Max(@ - Delta, 0) ELSE @],
        remove |-> FALSE]

\* Asteroid.Update: [w, remove]
AsteroidUpdate(w, id, pinned) ==
  LET a == w.objs[id]
      w0 == SpawnExplosion(w, a.Size * 4)
  IN
  IF a.Destroyed
  THEN IF a.Size > AsteroidSmall
       THEN LET w1 == WorldSpawn(w0, NewAsteroid(a.Size - 1), pinned)
                w2 == WorldSpawn(w1, NewAsteroid(a.Size - 1), pinned)
            IN [w |-> w2, remove |-> TRUE]
       ELSE [w |-> w0, remove |-> TRUE]
  ELSE [w |-> [w EXCEPT !.objs[id].SpawnProtection = IF @ > 0 THEN Max(@ - Delta, 0) ELSE @],
        remove |-> FALSE]

\* obj.Update(ctx) for an entity that is not a registered player's ship
ObjectUpdate(w, id, ctxObjects, pinned) ==
  CASE w.objs[id].kind = "spawner" ->
         [w |-> AsteroidSpawnerUpdate(w, w.objs[id].target, ctxObjects, pinned), remove |-> FALSE]
    [] w.objs[id].kind = "proj" -> ProjectileUpdate(w, id)
    [] w.objs[id].kind = "ast" -> AsteroidUpdate(w, id, pinned)
    [] OTHER -> [w |-> UserUpdate(w, id, EmptyInput, pinned), remove |-> FALSE]

(***************************************************************************)
(* Geometry (internal/physics), on integer points, lengths in tenths.      *)
(***************************************************************************)
Pos == {<<0, 0>>, <<100, 0>>}

DistanceSquared(a, b) == (a[1] - b[1]) * (a[1] - b[1]) + (a[2] - b[2]) * (a[2] - b[2])

PointInCircle(p, c, radius) == DistanceSquared(p, c) <= radius * radius

CirclesOverlap(c1, r1, c2, r2) == DistanceSquared(c1, c2) < (r1 + r2) * (r1 + r2)

\* User.GetRadius (Size 3.0 * 0.6) and asteroidRadii
GetRadius(o) ==
  CASE o.kind = "ship" -> 18
    [] o.kind = "ast" /\ o.Size = AsteroidSmall -> 15
    [] o.kind = "ast" /\ o.Size = AsteroidMedium -> 30
    [] o.kind = "ast" /\ o.Size = AsteroidLarge -> 50
    [] OTHER -> 0

IsDestroyed(o) == IF o.kind = "proj" THEN o.Destroyed \/ o.Lifetime <= 0 ELSE o.Destroyed

\* a faulty IsProtected: no asteroid counts as protected
IsProtectedNever(o) == FALSE

IsProtected(o) == o.SpawnProtection > 0

MarkDestroyed(o) ==
  IF o.kind = "proj" THEN [o EXCEPT !.Destroyed = TRUE, !.Lifetime = 0] ELSE [o EXCEPT !.Destroyed = TRUE]

\* a faulty asteroidScore: the scores of Large and Small exchanged
asteroidScoreSwapped(size) ==
  CASE size = AsteroidLarge -> ScoreSmallAsteroid
    [] size = AsteroidMedium -> ScoreMediumAsteroid
    [] size = AsteroidSmall -> ScoreLargeAsteroid
    [] OTHER -> 0

asteroidScore(size) ==
  CASE size = AsteroidLarge -> ScoreLargeAsteroid
    [] size = AsteroidMedium -> ScoreMediumAsteroid
    [] size = AsteroidSmall -> ScoreSmallAsteroid
    [] OTHER -> 0

\* the positions of the entities ids, up to a translation of the world: the
\* first of them is at the first point
Positions(ids) ==
  {pos \in [ids -> Pos] : \A i \in ids : (\A j \in ids : i <= j) => pos[i] = <<0, 0>>}

\* the handles of the registry that have a ship; a range over the registry
\* skips the others
Players(w, registry) == {id \in registry : w.handles[id].Player # Nil}

Collidables(w) == {id \in Range(w.Objects) : w.objs[id].kind \in {"ship", "proj", "ast"}}

(***************************************************************************)
(* Server.checkCollisions.  registry is Server.clients, pos the current    *)
(* positions, ord the order in which the registry is ranged over.          *)
(***************************************************************************)
ProjectileAsteroidCollisions(w, registry, pos, projectiles, asteroids) ==
  LET perProjectile(acc, p) ==
        LET perAsteroid(acc2, a) ==
              IF IsDestroyed(acc2.objs[a]) \/ IsProtected(acc2.objs[a]) THEN acc2
              ELSE IF PointInCircle(pos[p], pos[a], GetRadius(acc2.objs[a]))
              THEN LET marked == [acc2 EXCEPT !.objs[p] = MarkDestroyed(@), !.objs[a] = MarkDestroyed(@)]
                       owner == acc2.objs[p].OwnerID
                   IN IF owner \in registry
                      THEN SendEvent(marked, owner, EventScoreAdd(asteroidScore(acc2.objs[a].Size)))
                      ELSE marked
              ELSE acc2
        IN IF IsDestroyed(acc.objs[p]) THEN acc ELSE FoldL(perAsteroid, acc, asteroids)
  IN FoldL(perProjectile, w, projectiles)

checkProjectileProjectileCollisions(w, pos, projectiles) ==
  LET perFirst(acc, i) ==
        LET p1 == projectiles[i]
            perSecond(acc2, j) ==
              LET p2 == projectiles[j] IN
              IF j <= i \/ IsDestroyed(acc2.objs[p1]) \/ IsDestroyed(acc2.objs[p2]) THEN acc2
              ELSE IF CirclesOverlap(pos[p1], ProjectileRadius, pos[p2], ProjectileRadius)
              THEN [acc2 EXCEPT !.objs[p1] = MarkDestroyed(@), !.objs[p2] = MarkDestroyed(@)]
              ELSE acc2
        IN IF IsDestroyed(acc.objs[p1]) THEN acc
           ELSE FoldL(perSecond, acc, [k \in 1..Len(projectiles) |-> k])
  IN FoldL(perFirst, w, [k \in 1..Len(projectiles) |-> k])

\* a faulty owner test: no projectile counts as the ship's own
OwnProjectileNever(p, handle) == FALSE

\* p.OwnerID == handle.ID
OwnProjectile(p, handle) == p.OwnerID = handle.ID

\* a faulty player-collision phase: a hit ship stays the Player of its handle
PlayerCollisionsKeepPlayer(w, pos, ord, projectiles, asteroids) ==
  LET perHandle(acc, id) ==
        LET handle == acc.handles[id]
            ship == handle.Player
            hitters == SelectSeq(projectiles, LAMBDA p :
                          /\ ~IsDestroyed(acc.objs[p])
                          /\ ~OwnProjectile(acc.objs[p], handle)
                          /\ PointInCircle(pos[p], pos[ship], GetRadius(acc.objs[ship])))
            crashed == \E k \in 1..Len(asteroids) :
                          /\ ~IsDestroyed(acc.objs[asteroids[k]])
                          /\ ~IsProtected(acc.objs[asteroids[k]])
                          /\ CirclesOverlap(pos[ship], GetRadius(acc.objs[ship]),
                                            pos[asteroids[k]], GetRadius(acc.objs[asteroids[k]]))
            shot == IF hitters # <<>> THEN [acc EXCEPT !.objs[hitters[1]] = MarkDestroyed(@)] ELSE acc
        IN IF handle.Player = Nil \/ handle.InvincibleTime > 0 THEN acc
           ELSE IF hitters # <<>> \/ crashed
           THEN SendEvent(SpawnExplosion([shot EXCEPT !.toRemove = @ \cup {ship}], DeathParticles), id, EventPlayerDied)
           ELSE acc
  IN FoldL(perHandle, w, ord)

PlayerCollisions(w, pos, ord, projectiles, asteroids) ==
  LET perHandle(acc, id) ==
        LET handle == acc.handles[id]
            ship == handle.Player
            hitters == SelectSeq(projectiles, LAMBDA p :
                          /\ ~IsDestroyed(acc.objs[p])
                          /\ ~OwnProjectile(acc.objs[p], handle)
                          /\ PointInCircle(pos[p], pos[ship], GetRadius(acc.objs[ship])))
            crashed == \E k \in 1..Len(asteroids) :
                          /\ ~IsDestroyed(acc.objs[asteroids[k]])
                          /\ ~IsProtected(acc.objs[asteroids[k]])
                          /\ CirclesOverlap(pos[ship], GetRadius(acc.objs[ship]),
                                            pos[asteroids[k]], GetRadius(acc.objs[asteroids[k]]))
            shot == IF hitters # <<>> THEN [acc EXCEPT !.objs[hitters[1]] = MarkDestroyed(@)] ELSE acc
        IN IF handle.Player = Nil \/ handle.InvincibleTime > 0 THEN acc
           ELSE IF hitters # <<>> \/ crashed
           THEN SendEvent(SpawnExplosion([shot EXCEPT !.toRemove = @ \cup {ship}, !.handles[id].Player = Nil],
                                         DeathParticles),
                          id, EventPlayerDied)
           ELSE acc
  IN FoldL(perHandle, w, ord)

\* a faulty compaction: the killed ships stay in the entity list
CompactRemovedNone(w) == w

\* deferred compaction of the ships killed in this tick
CompactRemoved(w) ==
  IF w.toRemove = {} THEN w
  ELSE LET perObj(acc, id) == IF id \in w.toRemove THEN RemoveObject(acc, id) ELSE acc IN
       [FoldL(perObj, w, w.Objects) EXCEPT !.Objects = SelectSeq(@, LAMBDA id : id \notin w.toRemove)]

checkCollisions(w, registry, pos, ord) ==
  LET projectiles == SelectSeq(w.Objects, LAMBDA id : w.objs[id].kind = "proj")
      asteroids == SelectSeq(w.Objects, LAMBDA id : w.objs[id].kind = "ast")
      w0 == [w EXCEPT !.toRemove = {}]
      w1 == ProjectileAsteroidCollisions(w0, registry, pos, projectiles, asteroids)
      w2 == checkProjectileProjectileCollisions(w1, pos, projectiles)
      w3 == PlayerCollisions(w2, pos, ord, projectiles, asteroids)
  IN CompactRemoved(w3)

(***************************************************************************)
(* Server.updateWorld up to FlushSpawned.  ord is the order in which the   *)
(* registry is ranged over when the ships are updated.                     *)
(***************************************************************************)
\* a faulty countdown: the first tick after the spawn ends the invincibility
DecrementInvincibilityAtOnce(w, registry) ==
  [w EXCEPT !.handles = [id \in DOMAIN @ |->
      IF id \in registry /\ @[id].InvincibleTime > 0
      THEN [@[id] EXCEPT !.InvincibleTime = 0]
      ELSE @[id]]]

DecrementInvincibility(w, registry) ==
  [w EXCEPT !.handles = [id \in DOMAIN @ |->
      IF id \in registry /\ @[id].InvincibleTime > 0
      THEN [@[id] EXCEPT !.InvincibleTime = Max(@ - Delta, 0)]
      ELSE @[id]]]

UpdatePlayers(w, ord, pinned) ==
  LET perHandle(acc, id) ==
        IF acc.handles[id].Player # Nil
        THEN [UserUpdate(acc, acc.handles[id].Player, acc.handles[id].Input, pinned)
                EXCEPT !.ctxInput[id] = acc.handles[id].Input]
        ELSE acc
  IN FoldL(perHandle, w, ord)

UpdateObjects(w, playerSet, pinned) ==
  LET ctxObjects == w.Objects
      perObj(acc, id) ==
        IF id \in playerSet THEN [acc EXCEPT !.kept = Append(@, id)]
        ELSE LET r == ObjectUpdate(acc, id, ctxObjects, pinned) IN
             IF r.remove THEN RemoveObject(r.w, id)
             ELSE [r.w EXCEPT !.kept = Append(@, id)]
      done == FoldL(perObj, ParticlesUpdate([w EXCEPT !.kept = <<>>]), w.Objects)
  IN [done EXCEPT !.Objects = done.kept, !.kept = <<>>]

\* updateWorld up to FlushSpawned; the collision phase follows on its result
updateWorld(w, registry, ord, pinned) ==
  LET playerSet == {w.handles[id].Player : id \in registry} \ {Nil}
      w1 == DecrementInvincibility(w, registry)
      w2 == UpdatePlayers([w1 EXCEPT !.ctxInput = [id \in ClientIds |-> EmptyInput]], ord, pinned)
      w3 == UpdateObjects(w2, playerSet, pinned)
  IN FlushSpawned(w3)

(***************************************************************************)
(* Memory: what is still referred to.                                      *)
(***************************************************************************)
NoSnapshot == [idx |-> 0, cap |-> 0, len |-> 0, Players |-> 0, none |-> TRUE]

ArrIds == (0..1) \X (1..MaxObjIds)

\* a snapshot that no task of the run reads: its fields are kept as zero
Unread(snap) == [snap EXCEPT !.len = 0, !.Players = 0]

\* the Objects slice of a snapshot, read through its backing array
SnapObjects(arrs, snap) ==
  IF snap.cap = 0 THEN <<>> ELSE SubSeq(arrs[<<snap.idx, snap.cap>>], 1, snap.len)

\* the snapshots some task can still read: the held ones, and the published
\* one when the run has a task that calls GetSnapshot
LiveSnapshots(snap, hld) ==
  {x \in (IF rendering THEN {snap} ELSE {}) \cup {hld[t] : t \in ClientIds} : x.cap > 0}

\* the longest live slice over a backing array; the cells beyond it are not
\* read before a later copy overwrites them, and are kept as Nil
LiveLen(a, snap, hld) ==
  LET lens == {x.len : x \in {y \in LiveSnapshots(snap, hld) : <<y.idx, y.cap>> = a}} IN
  IF lens = {} THEN 0 ELSE CHOOSE n \in lens : \A m \in lens : m <= n

CollectArrays(arrs, bufs, snap, hld) ==
  [a \in ArrIds |->
     IF bufs[a[1]] = a[2] \/ LiveLen(a, snap, hld) > 0
     THEN [k \in 1..a[2] |-> IF k <= LiveLen(a, snap, hld) THEN arrs[a][k] ELSE Nil]
     ELSE <<>>]

Referenced(objects, spawn, hs, cl, arrs) ==
  (Range(objects) \cup Range(spawn)
     \cup {hs[id].Player : id \in ClientIds}
     \cup {cl[t].Player : t \in ClientIds}
     \cup UNION {Range(arrs[a]) : a \in ArrIds}) \ {Nil}

CollectObjs(os, objects, spawn, hs, cl, arrs) ==
  LET live == Referenced(objects, spawn, hs, cl, arrs) IN
  [id \in ObjIds |-> IF id \in live THEN os[id] ELSE NoObj]

Pinned == Referenced(Objects, toSpawn, handles, cli, arrays)

World == [objs |-> objs, Objects |-> Objects, toSpawn |-> toSpawn, handles |-> handles,
          AsteroidCount |-> AsteroidCount, particles |-> particles, ctxInput |-> ctxInput, toRemove |-> {},
          kept |-> <<>>, overflow |-> FALSE, panic |-> FALSE, blocked |-> FALSE]

(***************************************************************************)
(* The server task: Server.Run.                                            *)
(***************************************************************************)
\* Run, before the loop: the asteroid spawner is the first entity
RunStart ==
  /\ srvPc = "start"
  /\ LET w == AddObject(World, NewAsteroidSpawner(InitialAsteroidTarget), Pinned) IN
       /\ objs' = w.objs
       /\ Objects' = w.Objects
       /\ AsteroidCount' = w.AsteroidCount
  /\ srvPc' = "loop"
  /\ UNCHANGED <<ctxDone, clients, handles, nextClientID, chanVars, mu, toSpawn, particles, ctxInput, snapVars, mainPc, clientVars, restVars>>

\* select { case <-ctx.Done(): return; default: }
ServerExit ==
  /\ srvPc = "loop"
  /\ ctxDone
  /\ srvPc' = "exited"
  /\ UNCHANGED <<ctxDone, clients, handles, nextClientID, chanVars, mu, worldVars, ctxInput, snapVars, mainPc, clientVars, restVars>>

TickBegin ==
  /\ srvPc = "loop"
  /\ ~ctxDone
  /\ srvPc' = "processRegistrations"
  /\ UNCHANGED <<ctxDone, clients, handles, nextClientID, chanVars, mu, worldVars, ctxInput, snapVars, mainPc, clientVars, restVars>>

\* processRegistrations, case handle := <-s.registerCh
RegisterRecv ==
  /\ srvPc = "processRegistrations"
  /\ ~mu
  /\ registerCh # <<>>
  /\ registerCh' = Tail(registerCh)
  /\ clients' = clients \cup {Head(registerCh)}
  /\ UNCHANGED <<srvPc, ctxDone, handles, nextClientID, inputChan, unregisterCh, mu, worldVars, ctxInput, snapVars, mainPc, clientVars, restVars>>

\* a faulty delete: the entry stays in the registry
deleteKept(registry, clientID) == registry
\* delete(s.clients, clientID)
delete(registry, clientID) == registry \ {clientID}

\* processRegistrations, case clientID := <-s.unregisterCh
UnregisterRecv ==
  /\ srvPc = "processRegistrations"
  /\ ~mu
  /\ unregisterCh # <<>>
  /\ unregisterCh' = Tail(unregisterCh)
  /\ LET clientID == Head(unregisterCh)
         handle == handles[clientID]
         w == IF handle.Player # Nil THEN removeObjectLocked(World, handle.Player) ELSE World
     IN IF clientID \in clients
        THEN /\ Objects' = w.Objects
             /\ AsteroidCount' = w.AsteroidCount
             /\ handles' = [handles EXCEPT ![clientID].closed = TRUE]
             /\ clients' = delete(clients, clientID)
             /\ srvPc' = IF handle.closed THEN "panicked" ELSE srvPc
             /\ objs' = CollectObjs(objs, Objects', toSpawn, handles', cli, arrays)
        ELSE UNCHANGED <<Objects, AsteroidCount, handles, clients, srvPc, objs>>
  /\ UNCHANGED <<ctxDone, nextClientID, inputChan, registerCh, mu, toSpawn, particles, ctxInput, snapVars, mainPc, clientVars, restVars>>

\* processRegistrations, default: return; then collectInputs takes the lock
RegistrationsDone ==
  /\ srvPc = "processRegistrations"
  /\ registerCh = <<>>
  /\ unregisterCh = <<>>
  /\ ~mu
  /\ mu' = TRUE
  /\ srvPc' = "collectInputs"
  /\ UNCHANGED <<ctxDone, clients, handles, nextClientID, chanVars, worldVars, ctxInput, snapVars, mainPc, clientVars, restVars>>

\* a faulty drain: the newest pending input is taken first
CollectRecvNewestFirst ==
  /\ srvPc = "collectInputs"
  /\ inputChan # <<>>
  /\ inputChan' = SubSeq(inputChan, 1, Len(inputChan) - 1)
  /\ LET ci == inputChan[Len(inputChan)] IN
       handles' = IF ci.ClientID \in clients
                  THEN [handles EXCEPT ![ci.ClientID].Input = ci.Input]
                  ELSE handles
  /\ UNCHANGED <<srvPc, ctxDone, clients, nextClientID, registerCh, unregisterCh, mu, worldVars, ctxInput, snapVars, mainPc, clientVars, restVars>>

\* collectInputs, case ci := <-s.inputChan
CollectRecv ==
  /\ srvPc = "collectInputs"
  /\ inputChan # <<>>
  /\ inputChan' = Tail(inputChan)
  /\ LET ci == Head(inputChan) IN
       handles' = IF ci.ClientID \in clients
                  THEN [handles EXCEPT ![ci.ClientID].Input = ci.Input]
                  ELSE handles
  /\ UNCHANGED <<srvPc, ctxDone, clients, nextClientID, registerCh, unregisterCh, mu, worldVars, ctxInput, snapVars, mainPc, clientVars, restVars>>

\* collectInputs, default: return (the deferred Unlock)
CollectDone ==
  /\ srvPc = "collectInputs"
  /\ inputChan = <<>>
  /\ mu' = FALSE
  /\ srvPc' = "updateWorld"
  /\ UNCHANGED <<ctxDone, clients, handles, nextClientID, chanVars, worldVars, ctxInput, snapVars, mainPc, clientVars, restVars>>

\* updateWorld, from Lock to Unlock; ord1 and ord2 are the orders of the two
\* ranges over the registry, pos the positions the entities have reached
UpdateWorldStep ==
  /\ srvPc = "updateWorld"
  /\ ~mu
  /\ \E ord1 \in Orders(Players(World, clients)) :
       LET w4 == updateWorld(World, clients, ord1, Pinned)
       IN \E ord2 \in Orders(Players(w4, clients)), pos \in Positions(Collidables(w4)) :
            LET w == checkCollisions(w4, clients, pos, ord2) IN
              /\ Objects' = w.Objects
              /\ toSpawn' = w.toSpawn
              /\ AsteroidCount' = w.AsteroidCount
              /\ particles' = w.particles
              /\ handles' = w.handles
              /\ ctxInput' = w.ctxInput
              /\ objs' = CollectObjs(w.objs, w.Objects, w.toSpawn, w.handles, cli, arrays)
              /\ srvPc' = IF w.panic THEN "panicked"
                           ELSE IF w.blocked THEN "blocked" ELSE "createSnapshot"
  /\ UNCHANGED <<ctxDone, clients, nextClientID, chanVars, mu, snapVars, mainPc, clientVars, restVars>>

\* createSnapshot, then the frame-timing sleep
CreateSnapshotStep ==
  /\ srvPc = "createSnapshot"
  /\ ~mu
  /\ LET idx == snapshotIdx
         n == Len(Objects)
         grow == snapshotBufs[idx] < n
         cap == IF grow THEN n ELSE snapshotBufs[idx]
         old == IF grow THEN [k \in 1..n |-> Nil] ELSE arrays[<<idx, cap>>]
         buffer == [k \in 1..cap |-> IF k <= n THEN Objects[k] ELSE old[k]]
         made == [idx |-> idx, cap |-> cap, len |-> n, Players |-> Cardinality(clients), none |-> FALSE]
         snap == IF rendering THEN made ELSE Unread(made)
         bufs == [snapshotBufs EXCEPT ![idx] = cap]
         arrs == IF cap = 0 THEN arrays ELSE [arrays EXCEPT ![<<idx, cap>>] = buffer]
     IN /\ snapshotIdx' = 1 - idx
        /\ snapshotBufs' = bufs
        /\ snapshot' = snap
        /\ arrays' = CollectArrays(arrs, bufs, snap, held)
        /\ objs' = CollectObjs(objs, Objects, toSpawn, handles, cli, arrays')
  /\ ctxInput' = [id \in ClientIds |-> EmptyInput]
  /\ srvPc' = "loop"
  /\ UNCHANGED <<ctxDone, clients, handles, nextClientID, chanVars, mu, Objects, toSpawn, particles, AsteroidCount, mainPc, clientVars, restVars>>

ServerStep ==
  \/ RunStart
  \/ ServerExit
  \/ TickBegin
  \/ RegisterRecv
  \/ UnregisterRecv
  \/ RegistrationsDone
  \/ CollectRecv
  \/ CollectDone
  \/ UpdateWorldStep
  \/ CreateSnapshotStep

(***************************************************************************)
(* The public methods of Server that client tasks call.                    *)
(***************************************************************************)
\* a faulty SendInput: a full channel gives up its oldest input
SendInputDropOldest(ch, clientID, input) ==
  Append(IF Len(ch) < InputChanCap THEN ch ELSE Tail(ch), [ClientID |-> clientID, Input |-> input])

\* SendInput: select { case s.inputChan <- ...: default: }
SendInput(ch, clientID, input) ==
  IF Len(ch) < InputChanCap THEN Append(ch, [ClientID |-> clientID, Input |-> input]) ELSE ch

\* SpawnPlayer, from Lock to Unlock
SpawnPlayer(w, registry, clientID, pinned) ==
  IF clientID \notin registry THEN w
  ELSE LET w1 == IF w.handles[clientID].Player # Nil
                 THEN removeObjectLocked(w, w.handles[clientID].Player) ELSE w
           w2 == AddObject(w1, NewUser(clientID), pinned)
       IN IF w2.overflow THEN w2
          ELSE [w2 EXCEPT !.handles[clientID].Player = w2.Objects[Len(w2.Objects)],
                          !.handles[clientID].InvincibleTime = InvincibilitySeconds]

\* RemovePlayer, from Lock to Unlock
RemovePlayer(w, registry, clientID) ==
  IF clientID \notin registry \/ w.handles[clientID].Player = Nil THEN w
  ELSE [removeObjectLocked(w, w.handles[clientID].Player) EXCEPT !.handles[clientID].Player = Nil]

GetClientPlayer(registry, hs, clientID) ==
  IF clientID \in registry THEN hs[clientID].Player ELSE Nil

NewClientState == [handle |-> 0, GameState |-> "Start", Running |-> TRUE, Player |-> Nil,
                   Input |-> EmptyInput, Lives |-> InitialLives, Score |-> 0,
                   RespawnTimeRemaining |-> 0, shutdownTimer |-> 0, unregisterCalled |-> FALSE,
                   idleFor |-> 0, isInactive |-> FALSE]

\* RegisterClient: the id is allocated under the lock and the handle built
RegisterClientAlloc(t) ==
  /\ cliPc[t] = "new"
  /\ ~mu
  /\ nextClientID \in ClientIds
  /\ nextClientID' = nextClientID + 1
  /\ handles' = [handles EXCEPT ![nextClientID] = [NoHandle EXCEPT !.ID = nextClientID]]
  /\ cli' = [cli EXCEPT ![t].handle = nextClientID]
  /\ cliPc' = [cliPc EXCEPT ![t] = "RegisterClient"]
  /\ UNCHANGED <<serverVars, ctxDone, chanVars, worldVars, snapVars, mainPc, held, restVars>>

\* RegisterClient: s.registerCh <- handle, and the call returns
RegisterClientSend(t) ==
  /\ cliPc[t] = "RegisterClient"
  /\ Len(registerCh) < RegisterChCap
  /\ registerCh' = Append(registerCh, cli[t].handle)
  /\ cliPc' = [cliPc EXCEPT ![t] = "registered"]
  /\ UNCHANGED <<serverVars, ctxDone, handles, nextClientID, inputChan, unregisterCh, worldVars, snapVars, mainPc, cli, held, restVars>>

\* s.UnregisterClient(clientID) by any task, for an id it has called it with
\* before or not
UnregisterCall(clientID) ==
  /\ Len(unregisterCh) < UnregisterChCap
  /\ unregisterCh' = Append(unregisterCh, clientID)
  /\ UNCHANGED <<serverVars, ctxDone, handles, nextClientID, inputChan, registerCh, worldVars, snapVars, mainPc, clientVars, restVars>>

\* UnregisterClient: s.unregisterCh <- clientID, and the call returns
UnregisterClient(t) ==
  /\ cliPc[t] = "UnregisterClient"
  /\ Len(unregisterCh) < UnregisterChCap
  /\ unregisterCh' = Append(unregisterCh, cli[t].handle)
  /\ cli' = [cli EXCEPT ![t].unregisterCalled = TRUE]
  /\ cliPc' = [cliPc EXCEPT ![t] = "returnedNil"]
  /\ UNCHANGED <<serverVars, ctxDone, handles, nextClientID, inputChan, registerCh, worldVars, snapVars, mainPc, held, restVars>>

(***************************************************************************)
(* A session: a task that holds a handle and calls the public methods of   *)
(* Server in any order and at any time between RegisterClient and          *)
(* UnregisterClient.                                                       *)
(***************************************************************************)
\* s.SendInput(clientID, input)
SendInputCall(t) ==
  /\ cliPc[t] = "registered"
  /\ \E input \in {EmptyInput, SpaceInput} :
       inputChan' = SendInput(inputChan, cli[t].handle, input)
  /\ UNCHANGED <<serverVars, ctxDone, handles, nextClientID, registerCh, unregisterCh, worldVars, snapVars, mainPc, clientVars, restVars>>

\* a faulty SpawnPlayer: the world is changed without taking Server.mu
SpawnPlayerCallUnlocked(t) ==
  /\ cliPc[t] = "registered"
  /\ LET w == SpawnPlayer(World, clients, cli[t].handle, Pinned) IN
       /\ ~w.overflow
       /\ Objects' = w.Objects
       /\ AsteroidCount' = w.AsteroidCount
       /\ handles' = w.handles
       /\ objs' = CollectObjs(w.objs, w.Objects, toSpawn, w.handles, cli, arrays)
  /\ UNCHANGED <<serverVars, ctxDone, nextClientID, chanVars, toSpawn, particles, snapVars, mainPc, clientVars, restVars>>

\* s.SpawnPlayer(clientID)
SpawnPlayerCall(t) ==
  /\ cliPc[t] = "registered"
  /\ ~mu
  /\ LET w == SpawnPlayer(World, clients, cli[t].handle, Pinned) IN
       /\ ~w.overflow
       /\ Objects' = w.Objects
       /\ AsteroidCount' = w.AsteroidCount
       /\ handles' = w.handles
       /\ objs' = CollectObjs(w.objs, w.Objects, toSpawn, w.handles, cli, arrays)
  /\ UNCHANGED <<serverVars, ctxDone, nextClientID, chanVars, toSpawn, particles, snapVars, mainPc, clientVars, restVars>>

\* s.RemovePlayer(clientID)
RemovePlayerCall(t) ==
  /\ cliPc[t] = "registered"
  /\ ~mu
  /\ LET w == RemovePlayer(World, clients, cli[t].handle) IN
       /\ Objects' = w.Objects
       /\ AsteroidCount' = w.AsteroidCount
       /\ handles' = w.handles
       /\ objs' = CollectObjs(w.objs, w.Objects, toSpawn, w.handles, cli, arrays)
  /\ UNCHANGED <<serverVars, ctxDone, nextClientID, chanVars, toSpawn, particles, snapVars, mainPc, clientVars, restVars>>

\* <-handle.EventsCh
EventRecv(t) ==
  /\ cliPc[t] = "registered"
  /\ handles[cli[t].handle].EventsCh # <<>>
  /\ handles' = [handles EXCEPT ![cli[t].handle].EventsCh = Tail(@)]
  /\ UNCHANGED <<serverVars, ctxDone, nextClientID, chanVars, worldVars, snapVars, mainPc, clientVars, restVars>>

\* snapshot := s.GetSnapshot()
GetSnapshotCall(t) ==
  /\ cliPc[t] = "registered"
  /\ held[t].none
  /\ held' = [held EXCEPT ![t] = snapshot]
  /\ UNCHANGED <<serverVars, ctxDone, handles, nextClientID, chanVars, worldVars, snapVars, mainPc, cliPc, cli, restVars>>

\* the session drops the snapshot pointer
DropSnapshot(t) ==
  /\ cliPc[t] = "registered"
  /\ ~held[t].none
  /\ held' = [held EXCEPT ![t] = NoSnapshot]
  /\ arrays' = CollectArrays(arrays, snapshotBufs, snapshot, held')
  /\ objs' = CollectObjs(objs, Objects, toSpawn, handles, cli, arrays')
  /\ UNCHANGED <<serverVars, ctxDone, handles, nextClientID, chanVars, Objects, toSpawn, particles, AsteroidCount, snapshot, snapshotBufs, snapshotIdx, mainPc, cliPc, cli, restVars>>

\* the session ends: it goes on to call s.UnregisterClient(clientID)
SessionEnd(t) ==
  /\ cliPc[t] = "registered"
  /\ held[t].none
  /\ cliPc' = [cliPc EXCEPT ![t] = "UnregisterClient"]
  /\ UNCHANGED <<serverVars, ctxDone, handles, nextClientID, chanVars, worldVars, snapVars, mainPc, cli, held, restVars>>

(***************************************************************************)
(* The client task of the game: Client.Run after NewClient.  Client timers *)
(* are kept as running (1) or run down (0); a frame's delta may or may not *)
(* run one down.  c.state.Input is read by processInput and by the switch  *)
(* on GameState only; after the switch it is kept as the empty Input until *)
(* the next processInput overwrites it.                                    *)
(***************************************************************************)
\* processInput on the client state c, with the Input that ReadInput returned;
\* since: time.Since(c.lastInput) in seconds, which c.idleFor keeps
processInput(c, input, since) ==
  [c EXCEPT !.Input = input,
            !.idleFor = IF input.Pressed THEN 0 ELSE @,
            !.isInactive = IF input.Pressed THEN FALSE
                           ELSE IF since > InactivityDisconnectUser THEN @
                           ELSE IF since > InactivityWarnUser THEN TRUE ELSE @,
            !.Running = IF (~input.Pressed /\ since > InactivityDisconnectUser) \/ input.Quit THEN FALSE ELSE @]

\* processInput; idle: more than InactivityDisconnectUser since the last key
ProcessInput(t) ==
  /\ cliPc[t] \in {"registered", "processInput"}
  /\ \E input \in Inputs, idle \in BOOLEAN :
       /\ input.Pressed => ~idle
       /\ cli' = [cli EXCEPT ![t] = processInput(@, input, IF idle THEN InactivityDisconnectUser + 1 ELSE 0)]
       /\ inputChan' = IF cli[t].GameState = "Playing"
                       THEN SendInput(inputChan, cli[t].handle, input) ELSE inputChan
  /\ cliPc' = [cliPc EXCEPT ![t] = "processServerEvents"]
  /\ UNCHANGED <<serverVars, ctxDone, handles, nextClientID, registerCh, unregisterCh, worldVars, snapVars, mainPc, held, restVars>>

\* processServerEvents, case event, ok := <-c.handle.EventsCh with ok
ReceiveEvent(t) ==
  /\ cliPc[t] = "processServerEvents"
  /\ handles[cli[t].handle].EventsCh # <<>>
  /\ LET event == Head(handles[cli[t].handle].EventsCh) IN
       /\ handles' = [handles EXCEPT ![cli[t].handle].EventsCh = Tail(@)]
       /\ cli' = CASE event.Type = "EventPlayerDied" ->
                        [cli EXCEPT ![t].Lives = @ - 1, ![t].GameState = "Dead",
                                    ![t].Player = Nil, ![t].RespawnTimeRemaining = 1]
                   [] event.Type = "EventScoreAdd" ->
                        [cli EXCEPT ![t].Score = Min(@ + event.ScoreAdd, MaxScore)]
                   [] event.Type = "EventServerShutdown" ->
                        [cli EXCEPT ![t].GameState = "Shutdown", ![t].shutdownTimer = 1]
       /\ objs' = CollectObjs(objs, Objects, toSpawn, handles', cli', arrays)
  /\ UNCHANGED <<serverVars, ctxDone, nextClientID, chanVars, Objects, toSpawn, particles, AsteroidCount, snapVars, mainPc, cliPc, held, restVars>>

\* processServerEvents, the closed channel (!ok) or default
EventsDone(t) ==
  /\ cliPc[t] = "processServerEvents"
  /\ handles[cli[t].handle].EventsCh = <<>>
  /\ cli' = [cli EXCEPT ![t].Running = IF handles[cli[t].handle].closed THEN FALSE ELSE @]
  /\ cliPc' = [cliPc EXCEPT ![t] = "update"]
  /\ UNCHANGED <<serverVars, ctxDone, handles, nextClientID, chanVars, worldVars, snapVars, mainPc, held, restVars>>

\* a faulty cooldown test: the respawn is never held back
RespawnReadyAlways(remaining) == TRUE
\* updateDeadState: c.state.RespawnTimeRemaining <= 0
RespawnReady(remaining) == remaining <= 0

\* a faulty startGame: a session out of lives restarts with the lives it has
UpdateStartGameKeepLives(t) ==
  /\ cliPc[t] = "update"
  /\ \E delta \in 0..1 :
       LET remaining == IF cli[t].GameState = "Dead"
                        THEN Max(cli[t].RespawnTimeRemaining - delta, 0)
                        ELSE cli[t].RespawnTimeRemaining
       IN /\ \/ cli[t].GameState = "Start"
             \/ cli[t].GameState = "Dead" /\ RespawnReady(remaining)
          /\ cli[t].Input.Space
          /\ cli' = [cli EXCEPT ![t].RespawnTimeRemaining = remaining,
                                ![t].Lives = IF cli[t].GameState = "Start" THEN InitialLives ELSE @,
                                ![t].Score = IF cli[t].GameState = "Start" \/ cli[t].Lives <= 0 THEN 0 ELSE @,
                                ![t].Input = EmptyInput]
  /\ cliPc' = [cliPc EXCEPT ![t] = "SpawnPlayer"]
  /\ UNCHANGED <<serverVars, ctxDone, handles, nextClientID, chanVars, worldVars, snapVars, mainPc, held, restVars>>

\* updateStartState, updateDeadState: the key that starts the game
UpdateStartGame(t) ==
  /\ cliPc[t] = "update"
  /\ \E delta \in 0..1 :
       LET remaining == IF cli[t].GameState = "Dead"
                        THEN Max(cli[t].RespawnTimeRemaining - delta, 0)
                        ELSE cli[t].RespawnTimeRemaining
       IN /\ \/ cli[t].GameState = "Start"
             \/ cli[t].GameState = "Dead" /\ RespawnReady(remaining)
          /\ cli[t].Input.Space
          /\ cli' = [cli EXCEPT ![t].RespawnTimeRemaining = remaining,
                                ![t].Lives = IF cli[t].GameState = "Start" \/ @ <= 0 THEN InitialLives ELSE @,
                                ![t].Score = IF cli[t].GameState = "Start" \/ cli[t].Lives <= 0 THEN 0 ELSE @,
                                ![t].Input = EmptyInput]
  /\ cliPc' = [cliPc EXCEPT ![t] = "SpawnPlayer"]
  /\ UNCHANGED <<serverVars, ctxDone, handles, nextClientID, chanVars, worldVars, snapVars, mainPc, held, restVars>>

\* startGame: c.server.SpawnPlayer(c.handle.ID)
StartGameSpawn(t) ==
  /\ cliPc[t] = "SpawnPlayer"
  /\ ~mu
  /\ LET w == SpawnPlayer(World, clients, cli[t].handle, Pinned) IN
       /\ ~w.overflow
       /\ Objects' = w.Objects
       /\ AsteroidCount' = w.AsteroidCount
       /\ handles' = w.handles
       /\ objs' = CollectObjs(w.objs, w.Objects, toSpawn, w.handles, cli, arrays)
  /\ cliPc' = [cliPc EXCEPT ![t] = "GetClientPlayer"]
  /\ UNCHANGED <<serverVars, ctxDone, nextClientID, chanVars, toSpawn, particles, snapVars, mainPc, cli, held, restVars>>

\* startGame: c.state.Player = c.server.GetClientPlayer(...); GameState = Playing
StartGameFinish(t) ==
  /\ cliPc[t] = "GetClientPlayer"
  /\ ~mu
  /\ cli' = [cli EXCEPT ![t].Player = GetClientPlayer(clients, handles, cli[t].handle),
                        ![t].GameState = "Playing"]
  /\ objs' = CollectObjs(objs, Objects, toSpawn, handles, cli', arrays)
  /\ cliPc' = [cliPc EXCEPT ![t] = "drawFrame"]
  /\ UNCHANGED <<serverVars, ctxDone, handles, nextClientID, chanVars, Objects, toSpawn, particles, AsteroidCount, snapVars, mainPc, held, restVars>>

\* the other outcomes of the switch on GameState
UpdateState(t) ==
  /\ cliPc[t] = "update"
  /\ \E delta \in 0..1 :
       LET remaining == Max(cli[t].RespawnTimeRemaining - delta, 0) IN
       CASE cli[t].GameState = "Start" ->
              /\ ~cli[t].Input.Space
              /\ cli' = [cli EXCEPT ![t].Input = EmptyInput]
         [] cli[t].GameState = "Playing" ->
              /\ ~mu
              /\ cli' = [cli EXCEPT ![t].Player = GetClientPlayer(clients, handles, cli[t].handle),
                                    ![t].Input = EmptyInput]
         [] cli[t].GameState = "Dead" ->
              /\ ~(cli[t].Input.Space /\ RespawnReady(remaining))
              /\ cli' = [cli EXCEPT ![t].RespawnTimeRemaining = remaining, ![t].Input = EmptyInput]
         [] cli[t].GameState = "Shutdown" ->
              cli' = [cli EXCEPT ![t].shutdownTimer = Max(@ - delta, 0),
                                 ![t].Running = IF cli[t].shutdownTimer - delta <= 0 THEN FALSE ELSE @,
                                 ![t].Input = EmptyInput]
  /\ objs' = CollectObjs(objs, Objects, toSpawn, handles, cli', arrays)
  /\ cliPc' = [cliPc EXCEPT ![t] = "drawFrame"]
  /\ UNCHANGED <<serverVars, ctxDone, handles, nextClientID, chanVars, Objects, toSpawn, particles, AsteroidCount, snapVars, mainPc, held, restVars>>

\* drawFrame: snapshot := c.server.GetSnapshot()
GetSnapshot(t) ==
  /\ cliPc[t] = "drawFrame"
  /\ held' = [held EXCEPT ![t] = snapshot]
  /\ cliPc' = [cliPc EXCEPT ![t] = "drawing"]
  /\ UNCHANGED <<serverVars, ctxDone, handles, nextClientID, chanVars, worldVars, snapVars, mainPc, cli, restVars>>

\* drawFrame returns nil; the loop condition c.state.Running is tested
DrawFrameDone(t) ==
  /\ cliPc[t] = "drawing"
  /\ held' = [held EXCEPT ![t] = NoSnapshot]
  /\ arrays' = CollectArrays(arrays, snapshotBufs, snapshot, held')
  /\ objs' = CollectObjs(objs, Objects, toSpawn, handles, cli, arrays')
  /\ cliPc' = [cliPc EXCEPT ![t] = IF cli[t].Running THEN "processInput" ELSE "UnregisterClient"]
  /\ UNCHANGED <<serverVars, ctxDone, handles, nextClientID, chanVars, Objects, toSpawn, particles, AsteroidCount, snapshot, snapshotBufs, snapshotIdx, mainPc, cli, restVars>>

\* drawFrame returns an error (obj.Draw or chunkWriter.Flush): Run returns it
DrawFrameError(t) ==
  /\ cliPc[t] = "drawing"
  /\ held' = [held EXCEPT ![t] = NoSnapshot]
  /\ arrays' = CollectArrays(arrays, snapshotBufs, snapshot, held')
  /\ objs' = CollectObjs(objs, Objects, toSpawn, handles, cli, arrays')
  /\ cliPc' = [cliPc EXCEPT ![t] = "returnedErr"]
  /\ UNCHANGED <<serverVars, ctxDone, handles, nextClientID, chanVars, Objects, toSpawn, particles, AsteroidCount, snapshot, snapshotBufs, snapshotIdx, mainPc, cli, restVars>>

(***************************************************************************)
(* main: Shutdown, then cancelServer.                                      *)
(***************************************************************************)
\* Shutdown: the ServerShutdown event is offered to every registered handle
\* (a send on a closed channel panics)
ShutdownNotify ==
  /\ mainPc = "serving"
  /\ ~mu
  /\ handles' = [id \in DOMAIN handles |->
                   IF id \in clients THEN TrySend(handles[id], EventServerShutdown) ELSE handles[id]]
  /\ mainPc' = IF \E id \in clients : handles[id].closed THEN "panicked" ELSE "Shutdown"
  /\ elapsed' = 0
  /\ tickerC' = FALSE
  /\ UNCHANGED <<serverVars, ctxDone, nextClientID, chanVars, worldVars, snapVars, clientVars, InitialAsteroidTarget, rendering, streamVars, chunkVars, canvasVars, physVars>>

\* a faulty deadline: it fires one ticker period after the timeout
DeadlineFiredLate == elapsed >= ShutdownTimeout + 1

\* deadline := time.After(timeout): the deadline channel is ready
DeadlineFired == elapsed >= ShutdownTimeout

\* Shutdown waits in its select: neither case is ready, and one ticker period
\* goes by, at the end of which the ticker fires
ShutdownWait ==
  /\ mainPc = "Shutdown"
  /\ ~tickerC
  /\ ~DeadlineFired
  /\ elapsed' = elapsed + 1
  /\ tickerC' = TRUE
  /\ UNCHANGED <<serverVars, ctxDone, handles, nextClientID, chanVars, worldVars, snapVars, mainPc, clientVars, InitialAsteroidTarget, rendering, streamVars, chunkVars, canvasVars, physVars>>

\* Shutdown, case <-ticker.C: it returns when the registry is empty
ShutdownPoll ==
  /\ mainPc = "Shutdown"
  /\ tickerC
  /\ ~mu
  /\ tickerC' = FALSE
  /\ mainPc' = IF Cardinality(clients) = 0 THEN "cancelServer" ELSE mainPc
  /\ UNCHANGED <<serverVars, ctxDone, handles, nextClientID, chanVars, worldVars, snapVars, clientVars, InitialAsteroidTarget, rendering, streamVars, chunkVars, canvasVars, physVars, elapsed>>

\* Shutdown, case <-deadline: return
ShutdownDeadline ==
  /\ mainPc = "Shutdown"
  /\ DeadlineFired
  /\ mainPc' = "cancelServer"
  /\ UNCHANGED <<serverVars, ctxDone, handles, nextClientID, chanVars, worldVars, snapVars, clientVars, restVars>>

\* Shutdown returns: the registry is empty at a poll, or the deadline passed
ShutdownReturn ==
  \/ ShutdownPoll
  \/ ShutdownDeadline

CancelServer ==
  /\ mainPc = "cancelServer"
  /\ ctxDone' = TRUE
  /\ mainPc' = "stopped"
  /\ UNCHANGED <<serverVars, handles, nextClientID, chanVars, worldVars, snapVars, clientVars, restVars>>

MainStep ==
  \/ ShutdownNotify
  \/ ShutdownWait
  \/ ShutdownReturn
  \/ CancelServer

(***************************************************************************)
(* The keyboard stream (internal/input): the goroutine of StartStream that *)
(* feeds Stream.ch, and a task that calls ReadInput.                       *)
(***************************************************************************)
Bytes == {"q", "ESC", "[", "A"}

NoKeys == {}

\* applyByteToState: the key a single byte stamps
applyByteToState(state, b) ==
  CASE b = "q" -> state \cup {"quit"}
    [] b = "A" -> state \cup {"left"}
    [] b = "ESC" -> state \cup {"escape"}
    [] OTHER -> state

\* the parse loop of ReadInput from index i (counted from 1)
RECURSIVE ParseFrom(_, _, _)
ParseFrom(bs, i, state) ==
  IF i > Len(bs) THEN state
  ELSE IF bs[i] = "ESC" /\ i + 2 <= Len(bs) /\ bs[i + 1] = "[" /\ bs[i + 2] = "A"
       THEN ParseFrom(bs, i + 3, state \cup {"up"})
       ELSE ParseFrom(bs, i + 1, applyByteToState(state, bs[i]))

\* StartStream's goroutine: b, err := r.ReadByte() with err == nil
ReaderRead ==
  /\ readerPc = "ReadByte"
  /\ bytesRead < MaxBytes
  /\ \E b \in Bytes : readerByte' = b
  /\ bytesRead' = bytesRead + 1
  /\ readerPc' = "send"
  /\ UNCHANGED <<serverVars, ctxDone, handles, nextClientID, chanVars, worldVars, snapVars, mainPc, clientVars, InitialAsteroidTarget, rendering, timerVars, chunkVars, canvasVars, physVars, streamCh, streamClosed, riPc, buf, keyState, lastInput>>

\* err != nil (the connection was closed): close(s.ch); return
ReaderClose ==
  /\ readerPc = "ReadByte"
  /\ streamClosed' = TRUE
  /\ readerPc' = "returned"
  /\ UNCHANGED <<serverVars, ctxDone, handles, nextClientID, chanVars, worldVars, snapVars, mainPc, clientVars, InitialAsteroidTarget, rendering, timerVars, chunkVars, canvasVars, physVars, streamCh, readerByte, bytesRead, riPc, buf, keyState, lastInput>>

\* s.ch <- b
ReaderSend ==
  /\ readerPc = "send"
  /\ Len(streamCh) < StreamChCap
  /\ streamCh' = Append(streamCh, readerByte)
  /\ readerByte' = ""
  /\ readerPc' = "ReadByte"
  /\ UNCHANGED <<serverVars, ctxDone, handles, nextClientID, chanVars, worldVars, snapVars, mainPc, clientVars, InitialAsteroidTarget, rendering, timerVars, chunkVars, canvasVars, physVars, streamClosed, bytesRead, riPc, buf, keyState, lastInput>>

\* a frame of the caller: ReadInput(s) is entered, buf is empty
ReadInputCall ==
  /\ riPc = "idle"
  /\ buf' = <<>>
  /\ riPc' = "select"
  /\ UNCHANGED <<serverVars, ctxDone, handles, nextClientID, chanVars, worldVars, snapVars, mainPc, clientVars, InitialAsteroidTarget, rendering, timerVars, chunkVars, canvasVars, physVars, streamCh, streamClosed, readerPc, readerByte, bytesRead, keyState, lastInput>>

\* case b, ok := <-s.ch with ok: buf = append(buf, b), and the loop goes round
DrainByte ==
  /\ riPc = "select"
  /\ streamCh # <<>>
  /\ buf' = Append(buf, Head(streamCh))
  /\ streamCh' = Tail(streamCh)
  /\ UNCHANGED <<serverVars, ctxDone, handles, nextClientID, chanVars, worldVars, snapVars, mainPc, clientVars, InitialAsteroidTarget, rendering, timerVars, chunkVars, canvasVars, physVars, streamClosed, readerPc, readerByte, bytesRead, riPc, keyState, lastInput>>

\* case b, ok := <-s.ch with !ok: the receive from the closed, drained channel
DrainClosed ==
  /\ riPc = "select"
  /\ streamCh = <<>>
  /\ streamClosed
  /\ riPc' = "break"
  /\ UNCHANGED <<serverVars, ctxDone, handles, nextClientID, chanVars, worldVars, snapVars, mainPc, clientVars, InitialAsteroidTarget, rendering, timerVars, chunkVars, canvasVars, physVars, streamCh, streamClosed, readerPc, readerByte, bytesRead, buf, keyState, lastInput>>

\* break: it ends the select statement, and the for loop goes round
BreakSelect ==
  /\ riPc = "break"
  /\ riPc' = "select"
  /\ UNCHANGED <<serverVars, ctxDone, handles, nextClientID, chanVars, worldVars, snapVars, mainPc, clientVars, InitialAsteroidTarget, rendering, timerVars, chunkVars, canvasVars, physVars, streamCh, streamClosed, readerPc, readerByte, bytesRead, buf, keyState, lastInput>>

\* default: goto parse; the bytes are parsed and the Input is returned.  heldKeys
\* are the keys stamped by earlier calls within keyHoldDuration of now.
DrainDefault ==
  /\ riPc = "select"
  /\ streamCh = <<>>
  /\ ~streamClosed
  /\ \E heldKeys \in SUBSET keyState :
       /\ keyState' = ParseFrom(buf, 1, heldKeys)
       /\ lastInput' = [Keys |-> keyState', Pressed |-> buf]
  /\ buf' = <<>>
  /\ riPc' = "idle"
  /\ UNCHANGED <<serverVars, ctxDone, handles, nextClientID, chanVars, worldVars, snapVars, mainPc, clientVars, InitialAsteroidTarget, rendering, timerVars, chunkVars, canvasVars, physVars, streamCh, streamClosed, readerPc, readerByte, bytesRead>>

ReaderStep == ReaderRead \/ ReaderClose \/ ReaderSend

ReadInputStep == ReadInputCall \/ DrainByte \/ DrainClosed \/ BreakSelect \/ DrainDefault

(***************************************************************************)
(* processInput over the keyboard stream.  The client's clock is kept as   *)
(* c.idleFor, the seconds since c.lastInput; it goes on whatever the       *)
(* client is doing.                                                        *)
(***************************************************************************)
\* the lengths of time that pass at once
TimeSteps == {30, 31}

\* the Input of the stream as the client reads it
ClientInput(in) ==
  [Space |-> "space" \in in.Keys, Quit |-> "quit" \in in.Keys, Pressed |-> in.Pressed # <<>>]

\* time passes
TimePasses(t) ==
  /\ cli[t].idleFor <= InactivityDisconnectUser
  /\ \E dt \in TimeSteps : cli' = [cli EXCEPT ![t].idleFor = @ + dt]
  /\ UNCHANGED <<serverVars, ctxDone, handles, nextClientID, chanVars, worldVars, snapVars, mainPc, cliPc, held, restVars>>

\* processInput: input.ReadInput(c.inputStream) is entered
IdleReadInput(t) ==
  /\ cliPc[t] \in {"registered", "processInput"}
  /\ riPc = "idle"
  /\ buf' = <<>>
  /\ riPc' = "select"
  /\ cliPc' = [cliPc EXCEPT ![t] = "ReadInput"]
  /\ UNCHANGED <<serverVars, ctxDone, handles, nextClientID, chanVars, worldVars, snapVars, mainPc, cli, held,
                 InitialAsteroidTarget, rendering, timerVars, chunkVars, canvasVars, physVars,
                 streamCh, streamClosed, readerPc, readerByte, bytesRead, keyState, lastInput>>

\* ReadInput returns through default: goto parse, and processInput goes on
\* with the Input
IdleProcessInput(t) ==
  /\ cliPc[t] = "ReadInput"
  /\ riPc = "select"
  /\ streamCh = <<>>
  /\ ~streamClosed
  /\ \E heldKeys \in SUBSET keyState :
       /\ keyState' = ParseFrom(buf, 1, heldKeys)
       /\ lastInput' = [Keys |-> keyState', Pressed |-> buf]
  /\ buf' = <<>>
  /\ riPc' = "idle"
  /\ cli' = [cli EXCEPT ![t] = processInput(@, ClientInput(lastInput'), @.idleFor)]
  /\ inputChan' = IF cli[t].GameState = "Playing"
                  THEN SendInput(inputChan, cli[t].handle, ClientInput(lastInput')) ELSE inputChan
  /\ cliPc' = [cliPc EXCEPT ![t] = "processServerEvents"]
  /\ UNCHANGED <<serverVars, ctxDone, handles, nextClientID, registerCh, unregisterCh, worldVars, snapVars, mainPc, held,
                 InitialAsteroidTarget, rendering, timerVars, chunkVars, canvasVars, physVars,
                 streamCh, streamClosed, readerPc, readerByte, bytesRead>>

(***************************************************************************)
(* Screen.WrapPosition (internal/object/object.go, and the later version   *)
(* of that file with math.Mod).  Coordinates are whole numbers of some     *)
(* unit; the arithmetic is exact.                                          *)
(***************************************************************************)
\* the worlds and the coordinates WrapPosition is tried on
MaxWorld == 3
MaxCoord == 7

Screens == [Width : 2..MaxWorld, Height : 2..MaxWorld]

Coords == (0 - MaxCoord)..MaxCoord

\* for *x < 0 { *x += w }
RECURSIVE AddWhileNegative(_, _)
AddWhileNegative(x, w) == IF x < 0 THEN AddWhileNegative(x + w, w) ELSE x

\* for *x > w { *x -= w }
RECURSIVE SubtractWhileAbove(_, _)
SubtractWhileAbove(x, w) == IF x > w THEN SubtractWhileAbove(x - w, w) ELSE x

\* object.go: one coordinate of WrapPosition
WrapCoordinate(x, w) == IF w > 0 THEN SubtractWhileAbove(AddWhileNegative(x, w), w) ELSE x

\* object.go: WrapPosition(&x, &y)
WrapPosition(s, x, y) == [X |-> WrapCoordinate(x, s.Width), Y |-> WrapCoordinate(y, s.Height)]

\* math.Mod(x, w): the remainder with the sign of x
Mod(x, w) == IF x >= 0 THEN x % w ELSE 0 - ((0 - x) % w)

\* the later version: one coordinate of WrapPosition
WrapCoordinateMod(x, w) ==
  IF w > 0 THEN (IF Mod(x, w) < 0 THEN Mod(x, w) + w ELSE Mod(x, w)) ELSE x

\* the later version: WrapPosition(&x, &y)
WrapPositionMod(s, x, y) == [X |-> WrapCoordinateMod(x, s.Width), Y |-> WrapCoordinateMod(y, s.Height)]

\* no coordinates have been handed to WrapPosition
NoPos == [Screen |-> [Width |-> 0, Height |-> 0], X |-> 0, Y |-> 0, wrapped |-> "no"]

\* an Update ends with ctx.Screen.WrapPosition(&u.X, &u.Y)
WrapStep ==
  /\ LET p == WrapPosition(wrapPos.Screen, wrapPos.X, wrapPos.Y) IN
       wrapPos' = [wrapPos EXCEPT !.X = p.X, !.Y = p.Y, !.wrapped = "WrapPosition"]
  /\ UNCHANGED <<sessionVars, chunkVars, canvasVars, grid, gridEnts, calls, overlay, cam>>

\* the same in the later version
WrapModStep ==
  /\ LET p == WrapPositionMod(wrapPos.Screen, wrapPos.X, wrapPos.Y) IN
       wrapPos' = [wrapPos EXCEPT !.X = p.X, !.Y = p.Y, !.wrapped = "WrapPositionMod"]
  /\ UNCHANGED <<sessionVars, chunkVars, canvasVars, grid, gridEnts, calls, overlay, cam>>

(***************************************************************************)
(* SpatialGrid (internal/physics/grid.go).  The cells are numbered from 0, *)
(* row by row, and so are the entities of the slice the grid indexes.      *)
(***************************************************************************)
\* how many entities are inserted, and the coordinates they are inserted at
MaxEnts == 2
MaxGridX == 9
MaxGridY == 3

\* the worlds and cell sizes a grid is made for
GridSizes == [worldW : {5, 8}, worldH : {3}, cellSize : {2, 3}]

\* the positions of the entities, some of them outside every world
GridPositions == ((0 - 2)..MaxGridX) \X ((0 - 1)..MaxGridY)

Radii == {1, 2}

\* int(math.Ceil(a / b)) for a, b > 0
CeilDiv(a, b) == (a + b - 1) \div b

\* int(x * g.invCellSize): the conversion cuts the fraction off, towards zero
Truncate(x, cellSize) == IF x >= 0 THEN x \div cellSize ELSE 0 - ((0 - x) \div cellSize)

NoGrid == [cellSize |-> 0, cols |-> 0, rows |-> 0, cells |-> <<>>]

NoCalls == [from |-> 0 - 1, fn |-> <<>>, stopped |-> FALSE]

NewSpatialGrid(worldW, worldH, cellSize) ==
  LET cols == Max(CeilDiv(worldW, cellSize), 1)
      rows == Max(CeilDiv(worldH, cellSize), 1)
  IN [cellSize |-> cellSize, cols |-> cols, rows |-> rows,
      cells |-> [idx \in 0..(cols * rows - 1) |-> <<>>]]

Clamp(v, n) == IF v < 0 THEN 0 ELSE IF v >= n THEN n - 1 ELSE v

posToCell(g, x, y) ==
  [col |-> Clamp(Truncate(x, g.cellSize), g.cols), row |-> Clamp(Truncate(y, g.cellSize), g.rows)]

\* Insert(x, y, index)
Insert(g, x, y, index) ==
  LET cell == posToCell(g, x, y) IN
  [g EXCEPT !.cells[cell.row * g.cols + cell.col] = Append(@, index)]

\* Clear
Clear(g) == [g EXCEPT !.cells = [idx \in DOMAIN g.cells |-> <<>>]]

\* r := row + dr with the wrap at the edges
WrapCell(r, n) == IF r < 0 THEN r + n ELSE IF r >= n THEN r - n ELSE r

\* the items of the nine cells from the one at step k (dr = -1, dc = -1 is
\* step 0) on, in the order of the loops
RECURSIVE Neighbourhood(_, _, _)
Neighbourhood(g, cell, k) ==
  IF k > 8 THEN <<>>
  ELSE LET r == WrapCell(cell.row + (k \div 3) - 1, g.rows)
           c == WrapCell(cell.col + (k % 3) - 1, g.cols)
       IN g.cells[r * g.cols + c] \o Neighbourhood(g, cell, k + 1)

\* a faulty QueryAround that looks into the cell of the position only
QueryOwnCell(g, x, y) ==
  LET cell == posToCell(g, x, y) IN g.cells[cell.row * g.cols + cell.col]
\* QueryAround(x, y, fn): the indices fn is called with while it returns false
QueryAround(g, x, y) == Neighbourhood(g, posToCell(g, x, y), 0)

\* InitGrids: the grid is made for the world
GridNew ==
  /\ grid = NoGrid
  /\ \E sz \in GridSizes : grid' = NewSpatialGrid(sz.worldW, sz.worldH, sz.cellSize)
  /\ gridEnts' = <<>>
  /\ calls' = NoCalls
  /\ UNCHANGED <<sessionVars, chunkVars, canvasVars, wrapPos, overlay, cam>>

\* populateGrids: grid.Clear() for the entities of the next phase
GridClear ==
  /\ grid # NoGrid
  /\ grid' = Clear(grid)
  /\ gridEnts' = <<>>
  /\ calls' = NoCalls
  /\ UNCHANGED <<sessionVars, chunkVars, canvasVars, wrapPos, overlay, cam>>

\* populateGrids: grid.Insert(a.X, a.Y, i) for the next entity of the slice
GridInsert ==
  /\ grid # NoGrid
  /\ Len(gridEnts) < MaxEnts
  /\ \E p \in GridPositions, radius \in Radii :
       /\ gridEnts' = Append(gridEnts, [X |-> p[1], Y |-> p[2], Radius |-> radius])
       /\ grid' = Insert(grid, p[1], p[2], Len(gridEnts))
  /\ calls' = NoCalls
  /\ UNCHANGED <<sessionVars, chunkVars, canvasVars, wrapPos, overlay, cam>>

\* grid.QueryAround(a1.X, a1.Y, fn) for the entity i; stop: the call at which
\* fn returns true (0: at none)
GridQuery ==
  /\ grid # NoGrid
  /\ \E i \in 0..(Len(gridEnts) - 1), stop \in 0..1 :
       LET visit == QueryAround(grid, gridEnts[i + 1].X, gridEnts[i + 1].Y) IN
       calls' = IF stop = 0 \/ Len(visit) < stop
                THEN [from |-> i, fn |-> visit, stopped |-> FALSE]
                ELSE [from |-> i, fn |-> SubSeq(visit, 1, stop), stopped |-> TRUE]
  /\ UNCHANGED <<sessionVars, chunkVars, canvasVars, wrapPos, grid, gridEnts, overlay, cam>>

(***************************************************************************)
(* The text overlay of a frame (internal/loop/client/screen.go), reduced   *)
(* to the cursor positions it asks for.  A text is its length.             *)
(***************************************************************************)
\* the terminal sizes a connection reports, as <<width, height>>
TermSizes == {<<40, 12>>, <<80, 24>>, <<132, 43>>, <<200, 60>>, <<320, 100>>}

\* config.MaxTermWidth and config.MaxTermHeight of the build
MaxRenders == {<<120, 40>>, <<200, 60>>}

NoOverlay ==
  [termWidth |-> 0, termHeight |-> 0, offCol |-> 0, offRow |-> 0, MaxTerm |-> <<0, 0>>,
   GameState |-> "Start", isInactive |-> FALSE, Lives |-> 0, Player |-> FALSE, blink |-> FALSE,
   drawn |-> FALSE, cursors |-> <<>>]

clampTermSize(width, height, maxTerm) ==
  LET renderWidth == IF width > maxTerm[1] THEN maxTerm[1] ELSE width
      renderHeight == IF height > maxTerm[2] THEN maxTerm[2] ELSE height
  IN [renderWidth |-> renderWidth, renderHeight |-> renderHeight,
      offsetCol |-> (width - renderWidth) \div 2,
      offsetRow |-> (height - renderHeight) \div 2]

\* ChunkWriter.MoveCursor: the row and the column of the sequence it appends
MoveCursor(o, col, row) == [row |-> row + o.offRow, col |-> col + o.offCol]

\* ChunkWriter.WriteAt for each <<col, row>> of a list
WriteAt(o, places) == [k \in DOMAIN places |-> MoveCursor(o, places[k][1], places[k][2])]

drawShutdownScreen(centerX, centerY) ==
  << <<centerX - 20 \div 2, centerY - 3>>, <<centerX - 41 \div 2, centerY - 1>>,
     <<centerX - 29 \div 2, centerY>>, <<centerX - 30 \div 2, centerY + 2>>,
     <<centerX - 25 \div 2, centerY + 4>> >>

drawInactivityScreen(centerX, centerY) ==
  << <<centerX - 18 \div 2, centerY - 2>>, <<centerX - 76 \div 2, centerY>>,
     <<centerX - 25 \div 2, centerY + 2>> >>

drawStartScreen(centerX, centerY, blink) ==
  LET titleWidth == 54
      titleStartY == centerY - 7
      controlsY == titleStartY + 5 + 3
  IN [i \in 1..5 |-> <<centerX - titleWidth \div 2, titleStartY + (i - 1)>>]
     \o << <<centerX - 34 \div 2, titleStartY + 5 + 1>>, <<centerX - 8 \div 2, controlsY>> >>
     \o [i \in 1..4 |-> <<centerX - 22 \div 2, controlsY + 1 + (i - 1)>>]
     \o (IF blink THEN << <<centerX - 28 \div 2, controlsY + 4 + 2>> >> ELSE <<>>)
     \o << <<centerX - 23 \div 2, controlsY + 4 + 4>>, <<centerX - 30 \div 2, controlsY + 4 + 5>> >>

drawDeadScreen(centerX, centerY, lives, blink) ==
  LET titleWidth == IF lives > 0 THEN 39 ELSE 46
      titleStartY == centerY - 6
  IN [i \in 1..5 |-> <<centerX - titleWidth \div 2, titleStartY + (i - 1)>>]
     \o << <<centerX - 8 \div 2, titleStartY + 5 + 1>> >>
     \o (IF lives > 0 THEN << <<centerX - 18 \div 2, titleStartY + 5 + 3>> >> ELSE <<>>)
     \o (IF blink
         THEN << <<centerX - (IF lives > 0 THEN 31 ELSE 30) \div 2, titleStartY + 5 + 5>> >>
         ELSE <<>>)

drawMinimap(width, height) ==
  LET startCol == width - minimapWidth - 3
      startRow == 3
  IN IF startCol < 1 \/ startRow + minimapHeight + 1 > height THEN <<>>
     ELSE << <<startCol, startRow>> >>
          \o [i \in 1..minimapHeight |-> <<startCol, startRow + 1 + (i - 1)>>]
          \o << <<startCol, startRow + 1 + minimapHeight>> >>

drawPlayingHUD(width, height, player) ==
  << <<2, 1>>, <<width - 10 - 1, 1>> >>
  \o (IF player THEN drawMinimap(width, height) ELSE <<>>)
  \o << <<width - 13 - 1, height>> >>
  \o (IF player THEN << <<2, height>> >> ELSE <<>>)

\* drawUI: the <<col, row>> of its WriteAt calls, in order
drawUI(o) ==
  LET centerX == o.termWidth \div 2
      centerY == o.termHeight \div 2
  IN IF o.GameState = "Shutdown" THEN drawShutdownScreen(centerX, centerY)
     ELSE IF o.isInactive THEN drawInactivityScreen(centerX, centerY)
     ELSE CASE o.GameState = "Playing" -> drawPlayingHUD(o.termWidth, o.termHeight, o.Player)
            [] o.GameState = "Start" -> drawStartScreen(centerX, centerY, o.blink)
            [] o.GameState = "Dead" -> drawDeadScreen(centerX, centerY, o.Lives, o.blink)
            [] OTHER -> <<>>

\* updateScreen on a terminal of the size sz, then drawUI
DrawOverlay(sz) ==
  /\ LET r == clampTermSize(sz[1], sz[2], overlay.MaxTerm)
         o == [overlay EXCEPT !.termWidth = r.renderWidth, !.termHeight = r.renderHeight,
                              !.offCol = r.offsetCol, !.offRow = r.offsetRow]
     IN overlay' = [o EXCEPT !.drawn = TRUE, !.cursors = WriteAt(o, drawUI(o))]
  /\ UNCHANGED <<sessionVars, chunkVars, canvasVars, wrapPos, grid, gridEnts, calls, cam>>

\* the client's state between two frames: any game state, warned or not
OverlayState(gameState, inactive, lives, player, blink) ==
  /\ gameState = "Playing" => lives > 0
  /\ player => gameState = "Playing"
  /\ overlay' = [overlay EXCEPT !.GameState = gameState, !.isInactive = inactive, !.Lives = lives,
                                !.Player = player, !.blink = blink]
  /\ UNCHANGED <<sessionVars, chunkVars, canvasVars, wrapPos, grid, gridEnts, calls, cam>>

(***************************************************************************)
(* object.WorldToScreen.  The view sizes are even, as config.ViewWidth and *)
(* config.ViewHeight are, so that viewW/2 and viewH/2 are whole.           *)
(***************************************************************************)
\* margin := 10.0
margin == 10

\* ScreenPositions.Positions is a [4]draw.Point
PositionsLen == 4

\* for dx := -1; dx <= 1; dx++ { for dy := -1; dy <= 1; dy++ {
WrapOffsets == <<<<-1, -1>>, <<-1, 0>>, <<-1, 1>>, <<0, -1>>, <<0, 0>>, <<0, 1>>, <<1, -1>>, <<1, 0>>, <<1, 1>>>>

\* the two loops from their k-th turn on; room is the number of positions the
\* result can take
RECURSIVE ScanWrapOffsets(_, _, _, _, _, _, _)
ScanWrapOffsets(k, result, screenX, screenY, view, world, room) ==
  IF k > Len(WrapOffsets) THEN result
  ELSE LET sx == screenX + WrapOffsets[k][1] * world.Width
           sy == screenY + WrapOffsets[k][2] * world.Height
           within == sx >= 0 - margin /\ sx <= view.Width + margin /\ sy >= 0 - margin /\ sy <= view.Height + margin
           next == IF within /\ result.Count < room
                   THEN [Positions |-> Append(result.Positions, [X |-> sx, Y |-> sy]), Count |-> result.Count + 1]
                   ELSE result
       IN ScanWrapOffsets(k + 1, next, screenX, screenY, view, world, room)

\* the earlier WorldToScreen of object.go, which appends every copy in the view
WorldToScreenAppend(worldX, worldY, c, view, world) ==
  LET camLeft == c.X - view.Width \div 2
      camTop == c.Y - view.Height \div 2
  IN ScanWrapOffsets(1, [Positions |-> <<>>, Count |-> 0], worldX - camLeft, worldY - camTop, view, world,
                     Len(WrapOffsets))

WorldToScreen(worldX, worldY, c, view, world) ==
  LET camLeft == c.X - view.Width \div 2
      camTop == c.Y - view.Height \div 2
  IN ScanWrapOffsets(1, [Positions |-> <<>>, Count |-> 0], worldX - camLeft, worldY - camTop, view, world,
                     PositionsLen)

\* no object has been handed to WorldToScreen
NoCam == [drawn |-> FALSE]

\* Draw: positions := WorldToScreen(o.X, o.Y, ctx.Camera, ctx.View, ctx.World)
WorldToScreenStep ==
  /\ ~cam.drawn
  /\ cam' = [cam EXCEPT !.drawn = TRUE,
                        !.result = WorldToScreen(cam.X, cam.Y, cam.Camera, cam.View, cam.World)]
  /\ UNCHANGED <<sessionVars, chunkVars, canvasVars, wrapPos, grid, gridEnts, calls, overlay>>


\* nothing wrapped yet and no grid made
InitPhysics ==
  /\ wrapPos = NoPos
  /\ grid = NoGrid
  /\ gridEnts = <<>>
  /\ calls = NoCalls
  /\ overlay = NoOverlay
  /\ cam = NoCam

(***************************************************************************)
(* Initial states.                                                         *)
(***************************************************************************)
\* a stream on which nothing has happened yet
InitStream ==
  /\ streamCh = <<>>
  /\ streamClosed = FALSE
  /\ readerPc = "ReadByte"
  /\ readerByte = ""
  /\ bytesRead = 0
  /\ riPc = "idle"
  /\ buf = <<>>
  /\ keyState = NoKeys
  /\ lastInput = [Keys |-> NoKeys, Pressed |-> <<>>]

(***************************************************************************)
(* The chunk writer (internal/draw/terminal.go).  The bytes accumulated    *)
(* since the last Flush are told apart by their offset from the first of   *)
(* them; a run of bytes is the record [off, len].  Writes to the           *)
(* connection succeed.                                                     *)
(***************************************************************************)
\* the sizes of what Write, WriteString, WriteRune and MoveCursor append
WriteSizes == {maxChunkSize \div 2, maxChunkSize, bufwSize}

\* NewChunkWriter
InitChunkWriter ==
  /\ cwPc = "idle"
  /\ cwBuf = 0
  /\ data = [off |-> 0, len |-> 0]
  /\ bufw = [off |-> 0, len |-> 0]
  /\ connWrites = <<>>

\* cw.buf.Write and its kin
CwWrite(n) ==
  /\ cwPc = "idle"
  /\ cwBuf + n <= MaxAccum
  /\ cwBuf' = cwBuf + n
  /\ UNCHANGED <<cwPc, data, bufw, connWrites, gameVars, canvasVars>>

\* bufio.Writer.Flush: what is buffered goes to the connection in one Write
BufwFlush(b, conn) ==
  IF b.len = 0 THEN [bufw |-> b, conn |-> conn]
  ELSE [bufw |-> [off |-> b.off + b.len, len |-> 0], conn |-> Append(conn, b)]

\* bufio.Writer.WriteString of a chunk no longer than the buffer: what fits
\* is copied, a full buffer is flushed, and the rest is copied
BufwWriteString(b, conn, n) ==
  LET avail == bufwSize - b.len IN
  IF n > avail
  THEN LET f == BufwFlush([b EXCEPT !.len = @ + avail], conn) IN
       [bufw |-> [f.bufw EXCEPT !.len = n - avail], conn |-> f.conn]
  ELSE [bufw |-> [b EXCEPT !.len = @ + n], conn |-> conn]

\* Flush: data := cw.buf.String(); cw.buf.Reset()
FlushBegin ==
  /\ cwPc = "idle"
  /\ cwPc' = "Flush"
  /\ data' = [off |-> 0, len |-> cwBuf]
  /\ bufw' = [bufw EXCEPT !.off = 0]
  /\ cwBuf' = 0
  /\ connWrites' = <<>>
  /\ UNCHANGED <<gameVars, canvasVars>>

\* Flush: one turn of the loop
FlushChunk ==
  /\ cwPc = "Flush"
  /\ data.len > 0
  /\ LET chunk == IF data.len > maxChunkSize THEN maxChunkSize ELSE data.len
         r == BufwWriteString(bufw, connWrites, chunk)
     IN /\ bufw' = r.bufw
        /\ connWrites' = r.conn
        /\ data' = [off |-> data.off + chunk, len |-> data.len - chunk]
  /\ UNCHANGED <<cwPc, cwBuf, gameVars, canvasVars>>

\* Flush: return cw.bufw.Flush()
FlushReturn ==
  /\ cwPc = "Flush"
  /\ data.len = 0
  /\ LET r == BufwFlush(bufw, connWrites) IN
       /\ bufw' = r.bufw
       /\ connWrites' = r.conn
  /\ cwPc' = "idle"
  /\ UNCHANGED <<cwBuf, data, gameVars, canvasVars>>

(***************************************************************************)
(* The canvas (internal/draw/canvas.go) and the terminal it is rendered    *)
(* to.  The terminal has MaxTermRows rows of MaxTermCols cells; a cell     *)
(* shows a half-block glyph or a character of a text overlay.  The canvas  *)
(* sits at the top left of the terminal (offset 0).  What Render writes is *)
(* the sequence of its cursor moves, each with the glyph that follows it.  *)
(***************************************************************************)
TermCells == (1..MaxTermRows) \X (1..MaxTermCols)

\* the canvas sizes that fit the terminal
CanvasSizes ==
  {sz \in (1..MaxTermCols) \X (1..MaxTermRows) : sz[1] * sz[2] <= MaxCells}

\* draw.ClearScreen: the terminal after ESC[H ESC[2J
Blank == [cell \in TermCells |-> " "]

\* NewCanvas(1, 1), on a cleared terminal
InitCanvas ==
  /\ cvPc = "drawing"
  /\ termWidth = 1
  /\ termHeight = 1
  /\ pixels = [i \in 1..2 |-> FALSE]
  /\ prevCells = [i \in 1..1 |-> 0]
  /\ forceRedraw = TRUE
  /\ renderBuf = <<>>
  /\ screen = Blank

\* the rune Render writes for a cell state
Glyph(state) ==
  CASE state = cellFull -> "BlockFull"
    [] state = cellUpper -> "BlockUpperHalf"
    [] state = cellLower -> "BlockLowerHalf"
    [] state = cellEmpty -> " "

\* Render: the cell state of two sub-pixels
CellState(top, bottom) ==
  IF top /\ bottom THEN cellFull
  ELSE IF top THEN cellUpper
  ELSE IF bottom THEN cellLower
  ELSE cellEmpty

\* a faulty Render: forceRedraw is not looked at
RenderOutUnforced(w, h, px, prev, force) ==
  LET subPixelHeight == h * 2
      cell(k) ==
        LET row == k \div w
            col == k % w
            topY == row * 2
            bottomY == row * 2 + 1
            top == px[topY * w + col + 1]
            bottom == bottomY < subPixelHeight /\ px[bottomY * w + col + 1]
            current == CellState(top, bottom)
            packed == prev[row * w + col + 1]
            before == packed % (cellStateMask + 1)
            dirty == (packed \div cellDirtyBit) % 2 # 0
        IN IF ~dirty /\ current = before THEN <<>>
           ELSE <<[row |-> row + 1, col |-> col + 1, glyph |-> Glyph(current)]>>
      step(out, k) == out \o cell(k)
  IN FoldL(step, <<>>, [i \in 1..(w * h) |-> i - 1])

\* Render: the writes of one pass over the cells, in order
RenderOut(w, h, px, prev, force) ==
  LET subPixelHeight == h * 2
      cell(k) ==
        LET row == k \div w
            col == k % w
            topY == row * 2
            bottomY == row * 2 + 1
            top == px[topY * w + col + 1]
            bottom == bottomY < subPixelHeight /\ px[bottomY * w + col + 1]
            current == CellState(top, bottom)
            packed == prev[row * w + col + 1]
            before == packed % (cellStateMask + 1)
            dirty == (packed \div cellDirtyBit) % 2 # 0
        IN IF ~force /\ ~dirty /\ current = before THEN <<>>
           ELSE <<[row |-> row + 1, col |-> col + 1, glyph |-> Glyph(current)]>>
      step(out, k) == out \o cell(k)
  IN FoldL(step, <<>>, [i \in 1..(w * h) |-> i - 1])

\* Render: prevCells after the pass, dirty bits cleared
RenderCells(w, h, px) ==
  [i \in 1..(w * h) |->
     LET row == (i - 1) \div w
         col == (i - 1) % w
     IN CellState(px[(row * 2) * w + col + 1], px[(row * 2 + 1) * w + col + 1]) % (cellStateMask + 1)]

\* the terminal after it has taken these writes
Shown(scr, out) ==
  LET put(acc, wr) ==
        IF <<wr.row, wr.col>> \in TermCells THEN [acc EXCEPT ![<<wr.row, wr.col>>] = wr.glyph] ELSE acc
  IN FoldL(put, scr, out)

\* a faulty MarkTextDirty: it marks nothing
MarkTextDirtyNone(cells, w, h, col, row, width) == cells

MarkTextDirty(cells, w, h, col, row, width) ==
  LET r == row - 1
      c0 == col - 1
  IN IF r < 0 \/ r >= h THEN cells
     ELSE [i \in DOMAIN cells |->
             LET ci == (i - 1) - r * w IN
             IF ci >= c0 /\ ci < c0 + width /\ ci >= 0 /\ ci < w
             THEN IF (cells[i] \div cellDirtyBit) % 2 # 0 THEN cells[i] ELSE cells[i] + cellDirtyBit
             ELSE cells[i]]

\* Canvas.Clear
CanvasClear ==
  /\ pixels' = [i \in DOMAIN pixels |-> FALSE]
  /\ cvPc' = "drawing"
  /\ UNCHANGED <<termWidth, termHeight, prevCells, forceRedraw, renderBuf, screen, gameVars, chunkVars>>

\* Canvas.setPixel
SetPixel(x, y) ==
  /\ pixels' = IF x >= 0 /\ x < termWidth /\ y >= 0 /\ y < termHeight * 2
               THEN [pixels EXCEPT ![y * termWidth + x + 1] = TRUE]
               ELSE pixels
  /\ cvPc' = "drawing"
  /\ UNCHANGED <<termWidth, termHeight, prevCells, forceRedraw, renderBuf, screen, gameVars, chunkVars>>

\* Canvas.Render, and the terminal takes what it wrote
CanvasRender ==
  /\ renderBuf' = RenderOut(termWidth, termHeight, pixels, prevCells, forceRedraw)
  /\ screen' = Shown(screen, renderBuf')
  /\ prevCells' = RenderCells(termWidth, termHeight, pixels)
  /\ forceRedraw' = FALSE
  /\ cvPc' = IF \E cell \in (1..termHeight) \X (1..termWidth) : screen[cell] = "text"
             THEN "restored" ELSE "rendered"
  /\ UNCHANGED <<termWidth, termHeight, pixels, gameVars, chunkVars>>

\* a text overlay of width characters at (col, row) of the canvas area, and
\* the MarkTextDirty call that reports it
DrawText(col, row, width) ==
  /\ screen' = [cell \in TermCells |->
                  IF cell[1] = row /\ cell[2] >= col /\ cell[2] < col + width THEN "text" ELSE screen[cell]]
  /\ prevCells' = MarkTextDirty(prevCells, termWidth, termHeight, col, row, width)
  /\ cvPc' = "drawing"
  /\ UNCHANGED <<termWidth, termHeight, pixels, forceRedraw, renderBuf, gameVars, chunkVars>>

\* drawFrame on a change of game state: the terminal is cleared, ForceRedraw
ClearAndForceRedraw ==
  /\ screen' = Blank
  /\ forceRedraw' = TRUE
  /\ cvPc' = "drawing"
  /\ UNCHANGED <<termWidth, termHeight, pixels, prevCells, renderBuf, gameVars, chunkVars>>

\* updateScreen: on a change of size the terminal is cleared and ForceRedraw
\* called; then Canvas.Resize
UpdateScreen(w, h) ==
  /\ cvPc' = "drawing"
  /\ termWidth' = w
  /\ termHeight' = h
  /\ IF w # termWidth \/ h # termHeight
     THEN /\ screen' = Blank
          /\ pixels' = [i \in 1..(h * 2 * w) |-> FALSE]
          /\ prevCells' = [i \in 1..(w * h) |-> 0]
          /\ forceRedraw' = TRUE
     ELSE UNCHANGED <<screen, pixels, prevCells, forceRedraw>>
  /\ UNCHANGED <<renderBuf, gameVars, chunkVars>>

\* the state after NewServer and go gameServer.Run(ctx), with no session
InitServerBase(target, readers) ==
  /\ srvPc = "start"
  /\ ctxDone = FALSE
  /\ clients = {}
  /\ handles = [id \in ClientIds |-> NoHandle]
  /\ nextClientID = 1
  /\ inputChan = <<>>
  /\ registerCh = <<>>
  /\ unregisterCh = <<>>
  /\ mu = FALSE
  /\ objs = [id \in ObjIds |-> NoObj]
  /\ Objects = <<>>
  /\ toSpawn = <<>>
  /\ particles = NoParticles
  /\ AsteroidCount = 0
  /\ ctxInput = [id \in ClientIds |-> EmptyInput]
  /\ snapshot = [NoSnapshot EXCEPT !.none = FALSE]
  /\ snapshotBufs = [i \in 0..1 |-> 0]
  /\ snapshotIdx = 0
  /\ arrays = [a \in ArrIds |-> <<>>]
  /\ mainPc = "serving"
  /\ cliPc = [t \in ClientIds |-> "new"]
  /\ cli = [t \in ClientIds |-> NewClientState]
  /\ held = [t \in ClientIds |-> NoSnapshot]
  /\ InitialAsteroidTarget = target
  /\ rendering = readers
  /\ InitStream
  /\ elapsed = 0
  /\ tickerC = FALSE
  /\ InitChunkWriter
  /\ InitCanvas

\* a later state of the same server, between two ticks: the sessions 1..n have
\* registered, the entities ents follow the spawner in the entity list, every
\* ship among them is the Player of its owner's handle with its invincibility
\* run down, the last tick has published this entity list, and both snapshot
\* buffers have grown to MaxObjIds cells in earlier ticks; the sessions in
\* playing are inside Client.Run, in the Playing state with lives left and a
\* score, the events wait in their channels, and they are about to start a frame
InitSessionsAt(target, n, ents, readers, playing, lives, score, events) ==
  LET len == Len(ents) + 1
      shipOf(id) == {k \in 2..len : ents[k - 1].kind = "ship" /\ ents[k - 1].OwnerID = id}
      add(sum, o) == sum + asteroidWeight(o)
  IN
  /\ srvPc = "loop"
  /\ ctxDone = FALSE
  /\ clients = 1..n
  /\ handles = [id \in ClientIds |->
                  IF id <= n
                  THEN [NoHandle EXCEPT !.ID = id,
                                        !.EventsCh = IF id \in playing THEN events ELSE @,
                                        !.Player = IF shipOf(id) = {} THEN Nil ELSE CHOOSE k \in shipOf(id) : TRUE]
                  ELSE NoHandle]
  /\ nextClientID = n + 1
  /\ inputChan = <<>>
  /\ registerCh = <<>>
  /\ unregisterCh = <<>>
  /\ mu = FALSE
  /\ objs = [id \in ObjIds |->
               IF id = 1 THEN NewAsteroidSpawner(target)
               ELSE IF id <= len THEN ents[id - 1] ELSE NoObj]
  /\ Objects = [k \in 1..len |-> k]
  /\ toSpawn = <<>>
  /\ particles = NoParticles
  /\ AsteroidCount = FoldL(add, 0, ents)
  /\ ctxInput = [id \in ClientIds |-> EmptyInput]
  /\ snapshot = LET made == [idx |-> 0, cap |-> MaxObjIds, len |-> len, Players |-> n, none |-> FALSE]
                IN IF readers THEN made ELSE Unread(made)
  /\ snapshotBufs = [i \in 0..1 |-> MaxObjIds]
  /\ snapshotIdx = 1
  /\ arrays = [a \in ArrIds |->
                 IF a = <<0, MaxObjIds>> THEN [k \in 1..MaxObjIds |-> IF readers /\ k <= len THEN k ELSE Nil]
                 ELSE IF a = <<1, MaxObjIds>> THEN [k \in 1..MaxObjIds |-> Nil]
                 ELSE <<>>]
  /\ mainPc = IF \E k \in DOMAIN events : events[k] = EventServerShutdown THEN "Shutdown" ELSE "serving"
  /\ cliPc = [t \in ClientIds |->
                IF t \in playing THEN "processInput" ELSE IF t <= n THEN "registered" ELSE "new"]
  /\ cli = [t \in ClientIds |->
              IF t \in playing
              THEN [NewClientState EXCEPT !.handle = t, !.GameState = "Playing",
                                          !.Lives = lives, !.Score = score,
                                          !.Player = IF shipOf(t) = {} THEN Nil ELSE CHOOSE k \in shipOf(t) : TRUE]
              ELSE IF t <= n THEN [NewClientState EXCEPT !.handle = t] ELSE NewClientState]
  /\ held = [t \in ClientIds |-> NoSnapshot]
  /\ InitialAsteroidTarget = target
  /\ rendering = readers
  /\ InitStream
  /\ elapsed = 0
  /\ tickerC = FALSE
  /\ InitChunkWriter
  /\ InitCanvas
  /\ InitPhysics

\* the same, with the playing sessions in their first life, no score yet and
\* no event waiting for them
InitSessions(target, n, ents, readers, playing) ==
  InitSessionsAt(target, n, ents, readers, playing, InitialLives, 0, <<>>)

\* the same, with every session still on its start screen
InitWorld(target, n, ents, readers) == InitSessions(target, n, ents, readers, {})

\* the same, with nothing wrapped yet and no grid made
InitServer(target, readers) == InitServerBase(target, readers) /\ InitPhysics

(***************************************************************************)
(* Spec: sessions that register and leave, and main shutting down.         *)
(***************************************************************************)
Init == InitServer(0, FALSE)

Next ==
  \/ RunStart
  \/ ServerExit
  \/ TickBegin
  \/ RegisterRecv
  \/ UnregisterRecv
  \/ RegistrationsDone
  \/ CollectDone
  \/ UpdateWorldStep
  \/ CreateSnapshotStep
  \/ MainStep
  \/ \E t \in ClientIds :
       \/ RegisterClientAlloc(t)
       \/ RegisterClientSend(t)
       \/ SessionEnd(t)
       \/ UnregisterClient(t)

Spec == Init /\ [][Next]_vars

(***************************************************************************)
(* SpecWorld: registered sessions that spawn and remove their ships in a   *)
(* world with one Large asteroid to crash into; the first of them leaves.  *)
(***************************************************************************)
InitShips == InitWorld(AsteroidTarget, NumClients, <<NewAsteroid(AsteroidLarge)>>, FALSE)

NextWorld ==
  \/ TickBegin
  \/ UnregisterRecv
  \/ RegistrationsDone
  \/ CollectDone
  \/ UpdateWorldStep
  \/ CreateSnapshotStep
  \/ \E t \in ClientIds :
       \/ SpawnPlayerCall(t)
       \/ RemovePlayerCall(t)
  \/ SessionEnd(1)
  \/ UnregisterClient(1)

SpecWorld == InitShips /\ [][NextWorld]_vars

(***************************************************************************)
(* SpecInputs: two registered sessions with a ship each that send inputs.  *)
(***************************************************************************)
InitPlaying == InitWorld(0, NumClients, [k \in 1..NumClients |-> NewUser(k)], FALSE)

NextInputs ==
  \/ TickBegin
  \/ RegistrationsDone
  \/ CollectRecv
  \/ CollectDone
  \/ UpdateWorldStep
  \/ CreateSnapshotStep
  \/ \E t \in ClientIds : SendInputCall(t)

SpecInputs == InitPlaying /\ [][NextInputs]_vars

(***************************************************************************)
(* SpecSnapshot: a registered session that reads snapshots while another   *)
(* spawns and removes its ship.                                            *)
(***************************************************************************)
InitReaders == InitWorld(0, NumClients, <<>>, TRUE)

NextSnapshot ==
  \/ TickBegin
  \/ RegistrationsDone
  \/ CollectDone
  \/ UpdateWorldStep
  \/ CreateSnapshotStep
  \/ GetSnapshotCall(1)
  \/ DropSnapshot(1)
  \/ SpawnPlayerCall(2)
  \/ RemovePlayerCall(2)

SpecSnapshot == InitReaders /\ [][NextSnapshot]_vars

(***************************************************************************)
(* SpecClient: one connection running Client.Run against the server, and   *)
(* main announcing the shutdown.                                           *)
(***************************************************************************)
ClientStep(t) ==
  \/ RegisterClientAlloc(t)
  \/ RegisterClientSend(t)
  \/ ProcessInput(t)
  \/ ReceiveEvent(t)
  \/ EventsDone(t)
  \/ UpdateStartGame(t)
  \/ StartGameSpawn(t)
  \/ StartGameFinish(t)
  \/ UpdateState(t)
  \/ GetSnapshot(t)
  \/ DrawFrameDone(t)
  \/ DrawFrameError(t)
  \/ UnregisterClient(t)

InitClient == InitServer(0, TRUE)

NextClient ==
  \/ RunStart
  \/ TickBegin
  \/ RegisterRecv
  \/ UnregisterRecv
  \/ RegistrationsDone
  \/ CollectRecv
  \/ CollectDone
  \/ UpdateWorldStep
  \/ CreateSnapshotStep
  \/ ShutdownNotify
  \/ ClientStep(1)

SpecClient == InitClient /\ [][NextClient]_vars

(***************************************************************************)
(* SpecGame: one connection in the Playing state, its ship and a shot of   *)
(* its own among two Small asteroids, the frames  of Client.Run against    *)
(* the ticks, up to the key that would start the next game.                *)
(***************************************************************************)
InitGame ==
  InitSessions(0, 1, <<NewUser(1), NewProjectile(1), NewAsteroid(AsteroidSmall), NewAsteroid(AsteroidSmall)>>,
               TRUE, {1})

NextGame ==
  \/ TickBegin
  \/ RegistrationsDone
  \/ CollectRecv
  \/ CollectDone
  \/ UpdateWorldStep
  \/ CreateSnapshotStep
  \/ ProcessInput(1)
  \/ ReceiveEvent(1)
  \/ EventsDone(1)
  \/ UpdateState(1)
  \/ GetSnapshot(1)
  \/ DrawFrameDone(1)

SpecGame == InitGame /\ [][NextGame]_vars

(***************************************************************************)
(* SpecRespawn: one connection whose ship the last tick has destroyed, the *)
(* PlayerDied event still in its channel, with one to InitialLives lives   *)
(* and some score; the frames of Client.Run through the death screen and   *)
(* the restart.                                                            *)
(***************************************************************************)
InitRespawn ==
  \E lives \in 1..InitialLives, score \in {0, asteroidScore(AsteroidLarge), MaxScore} :
    InitSessionsAt(0, 1, <<>>, TRUE, {1}, lives, score, <<EventPlayerDied>>)

NextRespawn ==
  \/ ProcessInput(1)
  \/ ReceiveEvent(1)
  \/ EventsDone(1)
  \/ UpdateStartGame(1)
  \/ StartGameSpawn(1)
  \/ StartGameFinish(1)
  \/ UpdateState(1)
  \/ GetSnapshot(1)
  \/ DrawFrameDone(1)

SpecRespawn == InitRespawn /\ [][NextRespawn]_vars

(***************************************************************************)
(* SpecIdle: one connection on its start screen, its keyboard stream, and  *)
(* the time since its last key.  The frames of Client.Run keep running     *)
(* whenever they can take a step.                                          *)
(***************************************************************************)
InitIdle == InitWorld(0, 1, <<>>, TRUE)

IdleFrame ==
  \/ IdleReadInput(1)
  \/ DrainByte
  \/ DrainClosed
  \/ BreakSelect
  \/ IdleProcessInput(1)
  \/ EventsDone(1)
  \/ UpdateState(1)
  \/ GetSnapshot(1)
  \/ DrawFrameDone(1)

NextIdle == ReaderStep \/ TimePasses(1) \/ IdleFrame

SpecIdle == InitIdle /\ [][NextIdle]_vars /\ WF_vars(IdleFrame)

(***************************************************************************)
(* SpecLastFrames: one connection in the Playing state, its ship near a    *)
(* Small asteroid, while main announces the shutdown.                      *)
(***************************************************************************)
InitLastFrames == InitSessions(0, 1, <<NewUser(1), NewAsteroid(AsteroidSmall)>>, TRUE, {1})

NextLastFrames ==
  \/ TickBegin
  \/ RegistrationsDone
  \/ CollectRecv
  \/ CollectDone
  \/ UpdateWorldStep
  \/ CreateSnapshotStep
  \/ ShutdownNotify
  \/ ProcessInput(1)
  \/ ReceiveEvent(1)
  \/ EventsDone(1)
  \/ UpdateState(1)
  \/ GetSnapshot(1)
  \/ DrawFrameDone(1)

SpecLastFrames == InitLastFrames /\ [][NextLastFrames]_vars

(***************************************************************************)
(* SpecCollide: the server ticking over a world in which two projectiles   *)
(* of registered clients fly among two asteroids.  Only an asteroid of the *)
(* spawner (a Large one) can still be spawn-protected.                     *)
(***************************************************************************)
AsteroidsAfloat ==
  {NewAsteroidRandom(size, protection) :
     size \in {AsteroidSmall, AsteroidMedium, AsteroidLarge}, protection \in {0, SpawnProtectionTime}}

InitCollide ==
  \E owner \in ClientIds, a1 \in AsteroidsAfloat, a2 \in AsteroidsAfloat :
    /\ IsProtected(a1) => a1.Size = AsteroidLarge
    /\ IsProtected(a2) => a2.Size = AsteroidLarge
    /\ InitWorld(0, NumClients, <<NewProjectile(1), NewProjectile(owner), a1, a2>>, FALSE)

NextCollide ==
  \/ TickBegin
  \/ RegistrationsDone
  \/ CollectDone
  \/ UpdateWorldStep
  \/ CreateSnapshotStep

SpecCollide == InitCollide /\ [][NextCollide]_vars

(***************************************************************************)
(* SpecShots: the server ticking over a world with the ships of both       *)
(* clients, one projectile of either of them, and up to two asteroids.     *)
(***************************************************************************)
InitShots ==
  \E owner \in ClientIds, rocks \in {<<>>} \cup {<<a>> : a \in AsteroidsAfloat} \cup (AsteroidsAfloat \X AsteroidsAfloat) :
    /\ \A k \in DOMAIN rocks : IsProtected(rocks[k]) => rocks[k].Size = AsteroidLarge
    /\ InitWorld(0, NumClients, <<NewUser(1), NewUser(2), NewProjectile(owner)>> \o rocks, FALSE)

NextShots ==
  \/ TickBegin
  \/ RegistrationsDone
  \/ CollectDone
  \/ UpdateWorldStep
  \/ CreateSnapshotStep

SpecShots == InitShots /\ [][NextShots]_vars

(***************************************************************************)
(* SpecEvents: the ships of both clients, a projectile of either of them   *)
(* and a Small asteroid, so that ticks send ScoreAdd and PlayerDied        *)
(* events, while UnregisterClient is called for either client any number   *)
(* of times and main announces the shutdown.                               *)
(***************************************************************************)
InitEvents ==
  \E owner \in ClientIds :
    InitWorld(0, NumClients, <<NewUser(1), NewUser(2), NewProjectile(owner), NewAsteroid(AsteroidSmall)>>, FALSE)

NextEvents ==
  \/ TickBegin
  \/ UnregisterRecv
  \/ RegistrationsDone
  \/ CollectDone
  \/ UpdateWorldStep
  \/ CreateSnapshotStep
  \/ ShutdownNotify
  \/ \E id \in ClientIds : UnregisterCall(id)

SpecEvents == InitEvents /\ [][NextEvents]_vars

(***************************************************************************)
(* SpecSpawner: the server ticking over a world whose spawner has one of   *)
(* several targets, with a projectile among up to two asteroids.           *)
(***************************************************************************)
SpawnTargets == {0, 4, 12, 16, 20}

InitSpawner ==
  \E target \in SpawnTargets,
     rocks \in {<<>>} \cup {<<a>> : a \in AsteroidsAfloat} \cup (AsteroidsAfloat \X AsteroidsAfloat) :
    /\ \A k \in DOMAIN rocks : IsProtected(rocks[k]) => rocks[k].Size = AsteroidLarge
    /\ InitWorld(target, 1, <<NewProjectile(1)>> \o rocks, FALSE)

SpecSpawner == InitSpawner /\ [][NextCollide]_vars

(***************************************************************************)
(* SpecFragments: the three Large asteroids that a spawner of target 20    *)
(* releases into an empty world, their protection over, and a projectile   *)
(* among them.                                                             *)
(***************************************************************************)
FragmentTarget == 20

InitFragments ==
  LET rock == NewAsteroidRandom(AsteroidLarge, 0)
  IN InitWorld(FragmentTarget, 1, <<NewProjectile(1), rock, rock, rock>>, FALSE)

SpecFragments == InitFragments /\ [][NextCollide]_vars

(***************************************************************************)
(* SpecOverlay: the text overlay of the frames of a client whose terminal  *)
(* changes its size and whose game goes through every state.               *)
(***************************************************************************)
InitOverlay ==
  /\ InitServerBase(0, FALSE)
  /\ wrapPos = NoPos
  /\ grid = NoGrid
  /\ gridEnts = <<>>
  /\ calls = NoCalls
  /\ cam = NoCam
  /\ \E m \in MaxRenders : overlay = [NoOverlay EXCEPT !.MaxTerm = m]

NextOverlay ==
  \/ \E sz \in TermSizes : DrawOverlay(sz)
  \/ \E gameState \in {"Start", "Playing", "Dead", "Shutdown"}, inactive \in BOOLEAN,
        lives \in 0..InitialLives, player \in BOOLEAN, blink \in BOOLEAN :
       OverlayState(gameState, inactive, lives, player, blink)

SpecOverlay == InitOverlay /\ [][NextOverlay]_vars

(***************************************************************************)
(* SpecView: an object of a world, a camera and a view, and the            *)
(* WorldToScreen of the object.  Some of the worlds are small enough for   *)
(* copies of the object on both sides of the view.                         *)
(***************************************************************************)
Views == {[Width |-> 10, Height |-> 10], [Width |-> 10, Height |-> 4]}

ViewWorlds == {[Width |-> 8, Height |-> 8], [Width |-> 13, Height |-> 8], [Width |-> 13, Height |-> 40],
               [Width |-> 14, Height |-> 40], [Width |-> 40, Height |-> 40]}

ObjectCoords == {0, 2, 7}

CameraCoords == {0, 5}

InitView ==
  /\ InitServerBase(0, FALSE)
  /\ wrapPos = NoPos
  /\ grid = NoGrid
  /\ gridEnts = <<>>
  /\ calls = NoCalls
  /\ overlay = NoOverlay
  /\ \E x \in ObjectCoords, y \in ObjectCoords, cx \in CameraCoords, cy \in CameraCoords,
        view \in Views, world \in ViewWorlds :
       cam = [drawn |-> FALSE, X |-> x, Y |-> y, Camera |-> [X |-> cx, Y |-> cy], View |-> view, World |-> world,
              result |-> [Positions |-> <<>>, Count |-> 0]]

NextView == WorldToScreenStep

SpecView == InitView /\ [][NextView]_vars

(***************************************************************************)
(* SpecLeave: one session that registers, sends inputs and leaves, against *)
(* the ticks of the server.                                                *)
(***************************************************************************)
NextLeave ==
  \/ RunStart
  \/ TickBegin
  \/ RegisterRecv
  \/ UnregisterRecv
  \/ RegistrationsDone
  \/ CollectRecv
  \/ CollectDone
  \/ UpdateWorldStep
  \/ CreateSnapshotStep
  \/ RegisterClientAlloc(1)
  \/ RegisterClientSend(1)
  \/ SendInputCall(1)
  \/ SessionEnd(1)
  \/ UnregisterClient(1)

SpecLeave == Init /\ [][NextLeave]_vars

(***************************************************************************)
(* SpecLives: one connection in the Playing state on its last life, its    *)
(* ship near a Small asteroid, right after main has offered it the         *)
(* shutdown event: the frames of Client.Run through the shutdown screen,   *)
(* deaths and restarts against the ticks the server still runs.            *)
(***************************************************************************)
InitLives ==
  InitSessionsAt(0, 1, <<NewUser(1), NewAsteroid(AsteroidSmall)>>, FALSE, {1}, 1, 0, <<EventServerShutdown>>)

NextLives ==
  \/ TickBegin
  \/ RegistrationsDone
  \/ CollectRecv
  \/ CollectDone
  \/ UpdateWorldStep
  \/ CreateSnapshotStep
  \/ ProcessInput(1)
  \/ ReceiveEvent(1)
  \/ EventsDone(1)
  \/ UpdateStartGame(1)
  \/ StartGameSpawn(1)
  \/ StartGameFinish(1)
  \/ UpdateState(1)
  \/ GetSnapshot(1)
  \/ DrawFrameDone(1)

SpecLives == InitLives /\ [][NextLives]_vars

(***************************************************************************)
(* SpecStream: the keyboard stream alone.  The caller of ReadInput keeps   *)
(* running whenever it can take a step.                                    *)
(***************************************************************************)
NextStream == ReaderStep \/ ReadInputStep

SpecStream == Init /\ [][NextStream]_vars /\ WF_vars(ReadInputStep)

(***************************************************************************)
(* SpecChunks: a task that accumulates output in a ChunkWriter and flushes *)
(* it, again and again.                                                    *)
(***************************************************************************)
NextChunks ==
  \/ \E n \in WriteSizes : CwWrite(n)
  \/ FlushBegin
  \/ FlushChunk
  \/ FlushReturn

SpecChunks == Init /\ [][NextChunks]_vars

(***************************************************************************)
(* SpecCanvas: a task that draws frames on a canvas: it clears the canvas, *)
(* sets pixels, renders, lays text over the canvas area, and follows the   *)
(* size of the terminal.                                                   *)
(***************************************************************************)
NextCanvas ==
  \/ CanvasClear
  \/ \E x \in 0..MaxTermCols, y \in 0..(2 * MaxTermRows) : SetPixel(x, y)
  \/ CanvasRender
  \/ \E col \in 1..MaxTermCols, row \in 1..MaxTermRows, width \in 1..MaxTermCols : DrawText(col, row, width)
  \/ ClearAndForceRedraw
  \/ \E sz \in CanvasSizes : UpdateScreen(sz[1], sz[2])

SpecCanvas == Init /\ [][NextCanvas]_vars

(***************************************************************************)
(* SpecWrap: coordinates inside and outside a world, wrapped and wrapped   *)
(* again.                                                                  *)
(***************************************************************************)
InitWrap ==
  /\ InitServerBase(0, FALSE)
  /\ \E s \in Screens, x \in Coords, y \in Coords : wrapPos = [NoPos EXCEPT !.Screen = s, !.X = x, !.Y = y]
  /\ grid = NoGrid
  /\ gridEnts = <<>>
  /\ calls = NoCalls
  /\ overlay = NoOverlay
  /\ cam = NoCam

NextWrap == WrapStep \/ WrapModStep

SpecWrap == InitWrap /\ [][NextWrap]_vars

(***************************************************************************)
(* SpecGrid: a grid is made, entities are inserted at positions inside and *)
(* outside the world, and the neighbourhood of each is queried.            *)
(***************************************************************************)
NextGrid == GridNew \/ GridClear \/ GridInsert \/ GridQuery

SpecGrid == Init /\ [][NextGrid]_vars

(***************************************************************************)
(* Properties.                                                             *)
(***************************************************************************)
\* C1: while a task holds a snapshot, the contents of that snapshot's Objects
\* slice do not change, whatever the server does in the meantime.
C1_SnapshotImmutable ==
  [][\A t \in ClientIds :
       (~held[t].none /\ held'[t] = held[t])
         => SnapObjects(arrays', held[t]) = SnapObjects(arrays, held[t])]_vars

\* C2: whenever Client.Run has returned, for whatever reason, it has called
\* UnregisterClient for its id.
C2_RunEndCallsUnregister ==
  \A t \in ClientIds : cliPc[t] \in {"returnedNil", "returnedErr"} => cli[t].unregisterCalled

\* C3: a call of ReadInput always returns, while the connection is open and
\* after the reader has closed the channel.
C3_ReadInputReturns == (riPc = "select") ~> (riPc = "idle")

\* C4: when the lock is not held, the Player of every registered handle is a
\* ship of the entity list, and every ship of the entity list is the Player
\* of exactly one registered handle.
C4_PlayerIffShip ==
  ~mu =>
    /\ \A id \in clients :
         handles[id].Player # Nil =>
           /\ objs[handles[id].Player].kind = "ship"
           /\ Cardinality({k \in 1..Len(Objects) : Objects[k] = handles[id].Player}) = 1
    /\ \A k \in 1..Len(Objects) :
         objs[Objects[k]].kind = "ship" =>
           Cardinality({id \in clients : handles[id].Player = Objects[k]}) = 1

\* C4, the case: the first session has left and been removed, the second has
\* lost a ship to the asteroid and flies a new one
C4_Witness ==
  /\ ~mu
  /\ 1 \notin clients
  /\ 2 \in clients
  /\ handles[2].EventsCh = <<EventPlayerDied>>
  /\ handles[2].Player # Nil
  /\ handles[2].InvincibleTime = 0

\* a step of the server task inside its tick that may change the entity list
ServerMutation ==
  /\ srvPc \in {"processRegistrations", "updateWorld"}
  /\ srvPc' # srvPc \/ unregisterCh' # unregisterCh

C7_RegisterReturnsAtOnce ==
  srvPc \in {"loop", "exited"} =>
    \A t \in ClientIds :
      /\ cliPc[t] = "RegisterClient" => Len(registerCh) < RegisterChCap
      /\ cliPc[t] = "UnregisterClient" => Len(unregisterCh) < UnregisterChCap

\* C8: SendInput can always be completed, and on a full input channel it
\* leaves the queued inputs and every handle as they are.
C8_SendInputDropsWhenFull ==
  /\ [](\A t \in ClientIds : cliPc[t] = "registered" => ENABLED SendInputCall(t))
  /\ [][\A t \in ClientIds :
          (Len(inputChan) = InputChanCap /\ SendInputCall(t))
            => (inputChan' = inputChan /\ handles' = handles)]_vars

\* C8, the case: the input channel is full while the server is not draining
C8_Witness ==
  /\ Len(inputChan) = InputChanCap
  /\ srvPc = "loop"
  /\ \E i, j \in 1..Len(inputChan) : i # j /\ inputChan[i].ClientID # inputChan[j].ClientID

\* C9: a send puts an input behind the pending ones, the drain takes the
\* oldest pending input and stores it in its client's handle, nothing else
\* changes a handle's Input, and updateWorld hands every ship the Input of
\* its handle.
C9_InputsInOrder ==
  [][/\ Len(inputChan') > Len(inputChan)
          => SubSeq(inputChan', 1, Len(inputChan)) = inputChan
     /\ Len(inputChan') < Len(inputChan)
          => /\ srvPc = "collectInputs"
             /\ inputChan' = Tail(inputChan)
             /\ LET ci == Head(inputChan) IN
                  \A id \in ClientIds :
                    handles'[id].Input =
                      IF id = ci.ClientID /\ id \in clients THEN ci.Input ELSE handles[id].Input
     /\ Len(inputChan') >= Len(inputChan)
          => \A id \in ClientIds : handles'[id].Input = handles[id].Input
     /\ (srvPc = "updateWorld" /\ srvPc' = "createSnapshot")
          => \A id \in clients :
               handles[id].Player # Nil => ctxInput'[id] = handles[id].Input]_vars

\* C9, the case: the drain has stored an input with Space held, and
\* updateWorld has given it to the ship, which has fired
C9_Witness ==
  /\ srvPc = "createSnapshot"
  /\ \E id \in clients :
       /\ handles[id].Input = SpaceInput
       /\ ctxInput[id] = SpaceInput
       /\ \E p \in Range(Objects) : objs[p].kind = "proj" /\ objs[p].OwnerID = id

\* the score the specification gives for an asteroid of a size
ScoreFor(size) ==
  CASE size = AsteroidLarge -> 20
    [] size = AsteroidMedium -> 50
    [] size = AsteroidSmall -> 100

\* C10: wherever a live projectile lies inside an asteroid that is neither
\* destroyed nor protected, the collision phase marks both destroyed and
\* offers ScoreAdd 20 / 50 / 100 (Large / Medium / Small) to the events
\* channel of the projectile's owner and changes no other handle; and two
\* clients that each hit a Medium asteroid in one tick are each offered 50.
C10_ScoreAddToOwner ==
  LET projectiles == SelectSeq(Objects, LAMBDA id : objs[id].kind = "proj" /\ ~IsDestroyed(objs[id]))
      asteroids == SelectSeq(Objects, LAMBDA id :
                      objs[id].kind = "ast" /\ ~IsDestroyed(objs[id]) /\ ~IsProtected(objs[id]))
  IN \A pos \in [Collidables(World) -> Pos] :
       /\ \A i \in 1..Len(projectiles), j \in 1..Len(asteroids) :
            LET p == projectiles[i]
                a == asteroids[j]
                r == ProjectileAsteroidCollisions(World, clients, pos, <<p>>, <<a>>)
            IN PointInCircle(pos[p], pos[a], GetRadius(objs[a])) =>
                 /\ r.objs[p].Destroyed
                 /\ r.objs[a].Destroyed
                 /\ \A id \in ClientIds :
                      r.handles[id] =
                        IF id = objs[p].OwnerID /\ id \in clients
                        THEN TrySend(handles[id], EventScoreAdd(ScoreFor(objs[a].Size)))
                        ELSE handles[id]
       /\ (/\ Len(projectiles) = 2
           /\ Len(asteroids) = 2
           /\ objs[projectiles[1]].OwnerID # objs[projectiles[2]].OwnerID
           /\ \A j \in 1..2 : objs[asteroids[j]].Size = AsteroidMedium
           /\ \A j \in 1..2 : pos[projectiles[j]] = pos[asteroids[j]]
           /\ pos[asteroids[1]] # pos[asteroids[2]])
          => LET r == checkCollisions(World, clients, pos, <<1, 2>>) IN
               \A j \in 1..2 :
                 r.handles[objs[projectiles[j]].OwnerID] =
                   TrySend(handles[objs[projectiles[j]].OwnerID], EventScoreAdd(50))

\* C10, the case: in one tick the two clients have each destroyed a Medium
\* asteroid, and each has ScoreAdd 50 in its own events channel
C10_Witness ==
  /\ srvPc = "createSnapshot"
  /\ \A id \in ClientIds : handles[id].EventsCh = <<EventScoreAdd(50)>>
  /\ Cardinality({id \in Range(Objects) :
                    objs[id].kind = "ast" /\ objs[id].Destroyed /\ objs[id].Size = AsteroidMedium}) = 2
  /\ \E p, q \in Range(Objects) :
       /\ objs[p].kind = "proj" /\ objs[p].Destroyed /\ objs[p].OwnerID = 1
       /\ objs[q].kind = "proj" /\ objs[q].Destroyed /\ objs[q].OwnerID = 2

\* C11: in the updateWorld step of a tick, a registered client whose ship is
\* hit (the handle loses that ship) ends the step with Player nil, the ship
\* out of the entity list and one PlayerDied offered to its events channel
\* (appended unless the channel is full); a client whose ship is not hit is
\* offered nothing, and no other step puts anything on an events channel.
C11_DeathOnceAndRemoved ==
  [][IF srvPc = "updateWorld" /\ srvPc' # srvPc
     THEN \A id \in clients :
            LET ship == handles[id].Player
                ch == handles[id].EventsCh
            IN IF ship # Nil /\ handles'[id].Player # ship
               THEN /\ handles'[id].Player = Nil
                    /\ ship \notin Range(Objects')
                    /\ handles'[id].EventsCh =
                         IF Len(ch) < EventsChCap THEN Append(ch, EventPlayerDied) ELSE ch
               ELSE handles'[id].EventsCh = ch
     ELSE \A id \in ClientIds : handles'[id].EventsCh = handles[id].EventsCh]_vars

\* C11, the case: at the end of the tick in which its ship ran into the
\* asteroid the second client has no ship, in its handle or in the world,
\* and holds the one PlayerDied
C11_Witness ==
  /\ srvPc = "createSnapshot"
  /\ 2 \in clients
  /\ handles[2].Player = Nil
  /\ handles[2].EventsCh = <<EventPlayerDied>>
  /\ \A k \in 1..Len(Objects) : ~(objs[Objects[k]].kind = "ship" /\ objs[Objects[k]].OwnerID = 2)
  /\ \E k \in 1..Len(Objects) : objs[Objects[k]].kind = "ast"

\* C12: a client that has finished the state update of a frame in which the
\* server told it that it has no ship, that draws from a snapshot without
\* its ship, and for which no PlayerDied is waiting in its events channel,
\* has left the Playing state.
C12_DeathLearnedWithoutEvent ==
  \A t \in ClientIds :
    LET h == cli[t].handle IN
    (/\ cliPc[t] = "drawing"
     /\ h \in clients
     /\ handles[h].Player = Nil
     /\ cli[t].Player = Nil
     /\ held[t] = snapshot
     /\ \A k \in 1..held[t].len :
          ~(objs[SnapObjects(arrays, held[t])[k]].kind = "ship"
            /\ objs[SnapObjects(arrays, held[t])[k]].OwnerID = h)
     /\ \A k \in 1..Len(handles[h].EventsCh) : handles[h].EventsCh[k] # EventPlayerDied)
      => cli[t].GameState # "Playing"

\* C13: the game state of a client changes only from Start to Playing, from
\* Playing to Dead, from Dead to Playing, or from any state to Shutdown; a
\* client in Shutdown stays in Shutdown.
C13_GameStateTransitions ==
  [][\A t \in ClientIds :
       cli'[t].GameState # cli[t].GameState =>
         \/ cli[t].GameState = "Start" /\ cli'[t].GameState = "Playing"
         \/ cli[t].GameState = "Playing" /\ cli'[t].GameState = "Dead"
         \/ cli[t].GameState = "Dead" /\ cli'[t].GameState = "Playing"
         \/ cli[t].GameState # "Shutdown" /\ cli'[t].GameState = "Shutdown"]_vars


(***************************************************************************)
(* C14: a call to Shutdown offers exactly one ServerShutdown event to the  *)
(* events channel of every connected client, that is every client whose    *)
(* RegisterClient call has returned and that has not gone on to            *)
(* unregister; the event is lost only when that channel is full.           *)
(***************************************************************************)
C14_ShutdownOffersToEveryClient ==
  [][mainPc = "serving" /\ mainPc' = "Shutdown" =>
       \A t \in ClientIds :
         cliPc[t] = "registered" =>
           LET ch == handles[cli[t].handle].EventsCh IN
             handles'[cli[t].handle].EventsCh =
               IF Len(ch) < EventsChCap THEN Append(ch, EventServerShutdown) ELSE ch]_vars


(***************************************************************************)
(* C15: Shutdown returns no later than its timeout even when clients stay  *)
(* connected: it never waits in its select after the timeout has elapsed,  *)
(* and once the timeout has elapsed its wait ends without another ticker   *)
(* period going by.  It returns before the timeout only at one of its      *)
(* polls, and a poll that finds the registry empty always returns.         *)
(***************************************************************************)
C15_ShutdownReturnsInTime ==
  /\ [](mainPc = "Shutdown" => elapsed <= ShutdownTimeout)
  /\ [](mainPc = "Shutdown" /\ elapsed = ShutdownTimeout => ENABLED ShutdownDeadline /\ ~ENABLED ShutdownWait)
  /\ [][mainPc = "Shutdown" /\ mainPc' # mainPc =>
          /\ mainPc' = "cancelServer"
          /\ elapsed' = elapsed
          /\ elapsed < ShutdownTimeout => tickerC /\ ~tickerC' /\ clients = {}]_vars
  /\ [][mainPc = "Shutdown" /\ tickerC /\ ~tickerC' /\ clients = {} => mainPc' = "cancelServer"]_vars

\* Shutdown has returned at its first poll, before the timeout, after a
\* session that was in the registry unregistered
C15_Witness ==
  /\ mainPc = "cancelServer"
  /\ elapsed = 1
  /\ elapsed < ShutdownTimeout
  /\ clients = {}
  /\ \E t \in ClientIds : cliPc[t] = "returnedNil" /\ handles[cli[t].handle].closed


(***************************************************************************)
(* C16: once the server's context is cancelled, the server publishes no    *)
(* further snapshot, at whatever point of a tick the cancellation arrives: *)
(* no step taken with the context cancelled stores a snapshot or flips the *)
(* buffer index.                                                           *)
(***************************************************************************)
C16_NoSnapshotAfterCancel ==
  [][ctxDone => snapshot' = snapshot /\ snapshotIdx' = snapshotIdx]_vars


(***************************************************************************)
(* C17: after every tick the cached AsteroidCount equals 4 for each Large, *)
(* 2 for each Medium and 1 for each Small asteroid of the entity list.     *)
(***************************************************************************)
SizeWeight(o) ==
  IF o.kind # "ast" THEN 0
  ELSE IF o.Size = AsteroidLarge THEN 4
  ELSE IF o.Size = AsteroidMedium THEN 2
  ELSE IF o.Size = AsteroidSmall THEN 1 ELSE 0

ListWeight ==
  LET add(n, id) == n + SizeWeight(objs[id]) IN FoldL(add, 0, Objects)

C17_AsteroidCountIsListWeight ==
  srvPc = "loop" => AsteroidCount = ListWeight


(***************************************************************************)
(* C20: SpawnPlayer sets the handle's invincibility timer to 3 seconds and *)
(* every tick counts it down by the tick's delta, not below 0; a tick      *)
(* whose collision phase runs with the timer above 0 neither takes the     *)
(* ship from its handle or from the entity list nor sends PlayerDied.      *)
(* With ticks of one second a ship is safe from the asteroid for the two   *)
(* ticks after its spawn and can be killed from the third on.              *)
(***************************************************************************)
Deaths(ch) == Len(SelectSeq(ch, LAMBDA ev : ev = EventPlayerDied))

C20_NoDeathWhileInvincible ==
  [][/\ \A id \in ClientIds :
          handles'[id].Player # Nil /\ handles'[id].Player # handles[id].Player =>
            handles'[id].InvincibleTime = InvincibilitySeconds
     /\ srvPc = "updateWorld" /\ srvPc' # srvPc =>
          \A id \in clients :
            /\ handles'[id].InvincibleTime = Max(handles[id].InvincibleTime - Delta, 0)
            /\ handles'[id].InvincibleTime > 0 =>
                 /\ handles'[id].Player = handles[id].Player
                 /\ handles[id].Player # Nil => handles[id].Player \in Range(Objects')
                 /\ Deaths(handles'[id].EventsCh) = Deaths(handles[id].EventsCh)]_vars

\* a ship has lived through the tick that left one second of its invincibility
C20_Witness ==
  /\ srvPc = "createSnapshot"
  /\ \E id \in clients :
       /\ handles[id].InvincibleTime = 1
       /\ handles[id].Player # Nil
       /\ handles[id].Player \in Range(Objects)
       /\ \E a \in Range(Objects) : objs[a].kind = "ast" /\ ~IsDestroyed(objs[a]) /\ ~IsProtected(objs[a])
  /\ \E other \in clients :
       /\ handles[other].InvincibleTime = 0
       /\ handles[other].Player = Nil
       /\ Deaths(handles[other].EventsCh) = 1


(***************************************************************************)
(* C19: when Flush has returned, every Write the connection got during it  *)
(* is at most 1400 bytes long, the writes joined in order are exactly the  *)
(* bytes that were accumulated when Flush was called, and the buffer of    *)
(* the ChunkWriter is empty until something is written to it again.        *)
(***************************************************************************)
C19_FlushWritesSmallChunks ==
  /\ cwPc = "idle" =>
       /\ \A k \in DOMAIN connWrites : connWrites[k].len <= maxChunkSize
       /\ \A k \in DOMAIN connWrites :
            connWrites[k].off = IF k = 1 THEN 0 ELSE connWrites[k - 1].off + connWrites[k - 1].len
       /\ data.off = IF connWrites = <<>> THEN 0
                     ELSE connWrites[Len(connWrites)].off + connWrites[Len(connWrites)].len
       /\ bufw.len = 0
  /\ cwPc = "Flush" => cwBuf = 0


(***************************************************************************)
(* C18: right after Render every terminal cell of the canvas area shows    *)
(* the half-block glyph of its two vertical sub-pixels in the bitmap       *)
(* (space, upper half, lower half, full block), which is the screen a      *)
(* redraw of all cells gives; in particular a cell that a text overlay     *)
(* wrote over and MarkTextDirty reported shows its glyph again.            *)
(***************************************************************************)
SubPixel(x, y) == pixels[y * termWidth + x + 1]

FullRedraw ==
  [cell \in (1..termHeight) \X (1..termWidth) |->
     LET top == SubPixel(cell[2] - 1, 2 * (cell[1] - 1))
         bottom == SubPixel(cell[2] - 1, 2 * (cell[1] - 1) + 1)
     IN IF top /\ bottom THEN "BlockFull"
        ELSE IF top THEN "BlockUpperHalf"
        ELSE IF bottom THEN "BlockLowerHalf" ELSE " "]

C18_RenderShowsBitmap ==
  cvPc \in {"rendered", "restored"} =>
    \A cell \in DOMAIN FullRedraw : screen[cell] = FullRedraw[cell]

\* a Render without forceRedraw has put two different half-blocks where a text
\* overlay was
C18_Witness ==
  /\ cvPc = "restored"
  /\ termWidth = 2
  /\ screen[<<1, 1>>] = "BlockUpperHalf"
  /\ screen[<<1, 2>>] = "BlockLowerHalf"


(***************************************************************************)
(* C21: a ship is never killed by a projectile of its own client, and such *)
(* a projectile is not destroyed by passing through its owner's ship: in   *)
(* every tick, a ship that is killed was hit by an asteroid of the world   *)
(* or by a projectile of another client, which is destroyed with it; and a *)
(* projectile that is destroyed hit an asteroid, which is destroyed with   *)
(* it, or another projectile, or the ship of another client, which is      *)
(* killed with it.                                                         *)
(***************************************************************************)
DestroyedNow(kind) ==
  {o \in Range(Objects') : objs'[o].kind = kind /\ objs'[o].Destroyed}

KilledNow == {id \in clients : handles[id].Player # Nil /\ handles'[id].Player = Nil}

C21_OwnShotsPassThrough ==
  [][srvPc = "updateWorld" /\ srvPc' # srvPc =>
       /\ \A id \in KilledNow :
            \/ \E a \in Range(Objects') : objs'[a].kind = "ast"
            \/ \E p \in DestroyedNow("proj") : objs'[p].OwnerID # id
       /\ \A p \in DestroyedNow("proj") :
            \/ DestroyedNow("ast") # {}
            \/ DestroyedNow("proj") # {p}
            \/ \E id \in KilledNow : id # objs'[p].OwnerID]_vars

\* the projectile of client 1 and the ship of client 1 have lived through a
\* collision phase with no asteroid in the world, while ship 2 was shot
C21_Witness ==
  /\ srvPc = "createSnapshot"
  /\ handles[1].Player # Nil
  /\ handles[1].Player \in Range(Objects)
  /\ handles[2].Player = Nil
  /\ \E p \in Range(Objects) : objs[p].kind = "proj" /\ objs[p].OwnerID = 1 /\ objs[p].Destroyed
  /\ \A a \in Range(Objects) : objs[a].kind # "ast"


(***************************************************************************)
(* C22: an asteroid whose spawn protection is above 0 when the collision   *)
(* phase of a tick runs is not marked destroyed in it; a tick in which     *)
(* every asteroid of the world is protected adds no ScoreAdd event to any  *)
(* events channel; and a ship that is killed in a tick was hit by an       *)
(* asteroid without protection or by a projectile of another client.       *)
(***************************************************************************)
Scores(ch) == Len(SelectSeq(ch, LAMBDA ev : ev.Type = "EventScoreAdd"))

Unprotected == {a \in Range(Objects') : objs'[a].kind = "ast" /\ objs'[a].SpawnProtection = 0}

C22_ProtectedAsteroidsUntouched ==
  [][srvPc = "updateWorld" /\ srvPc' # srvPc =>
       /\ \A a \in Range(Objects') :
            objs'[a].kind = "ast" /\ objs'[a].SpawnProtection > 0 => ~objs'[a].Destroyed
       /\ Unprotected = {} =>
            \A id \in clients : Scores(handles'[id].EventsCh) = Scores(handles[id].EventsCh)
       /\ \A id \in KilledNow :
            \/ Unprotected # {}
            \/ \E p \in DestroyedNow("proj") : objs'[p].OwnerID # id]_vars

\* after a collision phase a protected asteroid is whole beside one without
\* protection that a projectile has destroyed, and both ships are alive
C22_Witness ==
  /\ srvPc = "createSnapshot"
  /\ \E a \in Range(Objects) : objs[a].kind = "ast" /\ objs[a].SpawnProtection > 0 /\ ~objs[a].Destroyed
  /\ \E b \in Range(Objects) : objs[b].kind = "ast" /\ objs[b].Destroyed
  /\ \E p \in Range(Objects) : objs[p].kind = "proj" /\ objs[p].Destroyed
  /\ \A id \in clients : handles[id].Player # Nil


(***************************************************************************)
(* C29: within one collision phase a projectile destroys at most one       *)
(* asteroid (and so yields at most one ScoreAdd event): no tick marks more *)
(* asteroids destroyed than projectiles.                                   *)
(***************************************************************************)
C29_OneAsteroidPerShot ==
  [][srvPc = "updateWorld" /\ srvPc' # srvPc =>
       Cardinality(DestroyedNow("ast")) <= Cardinality(DestroyedNow("proj"))]_vars


\* C23: from the Dead state the key starts a new game only with the respawn
\* cooldown that the death started run down to 0; the restart of a client with
\* no lives left sets lives to InitialLives and score to 0, any other restart
\* keeps both
C23_RespawnAfterCooldown ==
  [][cli[1].GameState = "Dead" /\ cliPc'[1] = "SpawnPlayer" /\ cliPc[1] # "SpawnPlayer" =>
       /\ cli'[1].RespawnTimeRemaining = 0
       /\ cli[1].Input.Space
       /\ IF cli[1].Lives <= 0
          THEN cli'[1].Lives = InitialLives /\ cli'[1].Score = 0
          ELSE cli'[1].Lives = cli[1].Lives /\ cli'[1].Score = cli[1].Score]_vars

\* a client that died with its last life has restarted with InitialLives lives,
\* no score and a ship of its own
C23_Witness ==
  /\ srvPc = "loop"
  /\ cli[1].GameState = "Playing"
  /\ cli[1].Player # Nil
  /\ cli[1].Lives = InitialLives
  /\ cli[1].Score = 0
  /\ cli[1].RespawnTimeRemaining = 0
  /\ handles[1].EventsCh = <<>>
  /\ held[1] # NoSnapshot

\* C24: a client that has had no key for more than InactivityDisconnectUser
\* seconds, and gets none any more, stops its loop
C24_IdleClientStops ==
  <>[](cli[1].idleFor > InactivityDisconnectUser) => <>(~cli[1].Running)

\* C26: in a world of positive width and height WrapPosition puts every
\* position into [0, Width) x [0, Height), and wrapping the result again
\* leaves it as it is
C26_WrapIntoWorld ==
  [][wrapPos'.wrapped = "WrapPosition" =>
       /\ 0 <= wrapPos'.X /\ wrapPos'.X < wrapPos.Screen.Width
       /\ 0 <= wrapPos'.Y /\ wrapPos'.Y < wrapPos.Screen.Height
       /\ WrapPosition(wrapPos.Screen, wrapPos'.X, wrapPos'.Y) = [X |-> wrapPos'.X, Y |-> wrapPos'.Y]]_vars

\* C25: a QueryAround from the position of an inserted entity calls fn with
\* the index of every other inserted entity whose circle overlaps its own,
\* when the cell size is at least the sum of the two radii, unless fn has
\* stopped the query
C25_QueryFindsOverlapping ==
  calls.from >= 0 =>
    \A j \in 0..(Len(gridEnts) - 1) :
      LET a == gridEnts[calls.from + 1]
          b == gridEnts[j + 1]
      IN (/\ j # calls.from
          /\ CirclesOverlap(<<a.X, a.Y>>, a.Radius, <<b.X, b.Y>>, b.Radius)
          /\ grid.cellSize >= a.Radius + b.Radius)
           => calls.stopped \/ j \in Range(calls.fn)

\* a query from an entity left of the world, clamped into the first column,
\* has called fn with the entity in the next column whose circle overlaps
C25_Witness ==
  /\ calls.from = 0
  /\ ~calls.stopped
  /\ Len(gridEnts) = 2
  /\ gridEnts[1].X < 0
  /\ posToCell(grid, gridEnts[1].X, gridEnts[1].Y) # posToCell(grid, gridEnts[2].X, gridEnts[2].Y)
  /\ CirclesOverlap(<<gridEnts[1].X, gridEnts[1].Y>>, gridEnts[1].Radius, <<gridEnts[2].X, gridEnts[2].Y>>, gridEnts[2].Radius)
  /\ grid.cellSize >= gridEnts[1].Radius + gridEnts[2].Radius
  /\ 1 \in Range(calls.fn)

\* C27: once the server has drained its control channels, a client whose
\* RegisterClient and UnregisterClient requests have both been taken from
\* them is not in the registry and its events channel is closed
C27_UnregisterWinsInDrain ==
  \A t \in ClientIds :
    (/\ srvPc \in {"collectInputs", "updateWorld", "createSnapshot", "loop"}
     /\ cli[t].unregisterCalled
     /\ cli[t].handle \notin Range(registerCh)
     /\ cli[t].handle \notin Range(unregisterCh))
      => cli[t].handle \notin clients /\ handles[cli[t].handle].closed

\* C28: when startGame has moved a client to the Playing state, the world
\* holds a ship owned by that client, and startGame has got it from
\* GetClientPlayer
C28_PlayingClientHasShip ==
  [][(cli[1].GameState # "Playing" /\ cli'[1].GameState = "Playing") =>
       /\ cli'[1].Player # Nil
       /\ cli'[1].Player \in Range(Objects')
       /\ objs'[cli'[1].Player].kind = "ship"
       /\ objs'[cli'[1].Player].OwnerID = cli[1].handle]_vars

\* C30: neither the server loop nor Shutdown ever sends on a closed events
\* channel, no events channel is closed twice, and every handle in the
\* registry has an open events channel
C30_NoSendOnClosedChannel ==
  /\ srvPc # "panicked"
  /\ mainPc # "panicked"
  /\ \A id \in clients : ~handles[id].closed

\* client 1 is unregistered and its channel closed, UnregisterClient has been
\* called for it again, the shutdown has been announced to client 2, and a
\* tick is about to drain the control channels
C30_Witness ==
  /\ srvPc = "processRegistrations"
  /\ handles[1].closed
  /\ clients = {2}
  /\ unregisterCh = <<1>>
  /\ mainPc = "Shutdown"
  /\ handles[2].EventsCh # <<>>

\* the Large asteroids that the spawner has released in the tick that ends:
\* the only ones whose spawn protection has not yet been counted down
FreshLarge ==
  {o \in Range(Objects') : /\ objs'[o].kind = "ast"
                            /\ objs'[o].Size = AsteroidLarge
                            /\ objs'[o].SpawnProtection = SpawnProtectionTime}

\* C31: an update of the spawner releases no asteroid when the weighted
\* population has reached the target, and otherwise as many Large asteroids
\* with SpawnProtectionTime of protection, counted as 4 each, as it takes to
\* bring target minus population below 12, and no more; the update ends
C31_SpawnerFillsInBatches ==
  [][srvPc = "updateWorld" /\ srvPc' # srvPc =>
       LET target == objs[1].target
           count == countActiveAsteroids(World, Objects)
           n == Cardinality(FreshLarge)
       IN /\ srvPc' = "createSnapshot"
          /\ count >= target => n = 0
          /\ count < target =>
               /\ target - (count + 4 * n) < 12
               /\ n > 0 => target - (count + 4 * (n - 1)) >= 12]_vars

\* a tick has released two Large asteroids into a world that held asteroids
\* already
C31_Witness ==
  /\ srvPc = "createSnapshot"
  /\ Cardinality({o \in Range(Objects) : objs[o].kind = "ast" /\ objs[o].SpawnProtection = SpawnProtectionTime}) = 2
  /\ \E o \in Range(Objects) : objs[o].kind = "ast" /\ objs[o].SpawnProtection < SpawnProtectionTime

\* what an asteroid weighs in the population: its own weight while it is
\* afloat, the weight of the two fragments it will release once it is marked
AsteroidLoad(o) ==
  CASE o.kind # "ast" -> 0
    [] ~o.Destroyed -> asteroidWeight(o)
    [] o.Size = AsteroidLarge -> 2 * 2
    [] o.Size = AsteroidMedium -> 2 * 1
    [] OTHER -> 0

RECURSIVE WeightedPopulation(_)
WeightedPopulation(ids) ==
  IF ids = <<>> THEN 0 ELSE AsteroidLoad(objs[Head(ids)]) + WeightedPopulation(Tail(ids))

\* C32: the weighted population of the world (4, 2, 1 per live Large, Medium,
\* Small asteroid, and the fragments that a marked asteroid is about to
\* release) is never above the target of the spawner
C32_PopulationWithinTarget ==
  WeightedPopulation(Objects \o toSpawn) <= objs[1].target

\* the asteroids of the given tier that are marked destroyed when a tick begins
Marked(size) ==
  {o \in Range(Objects) : objs[o].kind = "ast" /\ objs[o].Destroyed /\ objs[o].Size = size}

\* the asteroids of the given tier that a tick has added to the world
Released(size) ==
  {o \in Range(Objects') \ Range(Objects) : objs'[o].kind = "ast" /\ objs'[o].Size = size}

RECURSIVE SumOver(_, _)
SumOver(f, S) ==
  IF S = {} THEN 0 ELSE LET x == CHOOSE y \in S : TRUE IN f[x] + SumOver(f, S \ {x})

\* C33: the update of a tick removes every asteroid that was marked
\* destroyed; for each of them it adds 4 x tier particles and, above Small,
\* two asteroids of the next smaller tier, and nothing else adds an
\* asteroid in a world whose spawner is idle.  Once marked in a collision
\* phase an asteroid is skipped by the rest of the phase: the phase sends at
\* most one ScoreAdd per asteroid it marks, and a ship is killed only by an
\* asteroid that is still whole or by a projectile of another client
C33_DestroyedAsteroidBreaksUp ==
  [][srvPc = "updateWorld" /\ srvPc' # srvPc =>
       LET tiers == {AsteroidSmall, AsteroidMedium, AsteroidLarge}
           sent == [id \in clients |-> Scores(handles'[id].EventsCh) - Scores(handles[id].EventsCh)]
       IN /\ \A size \in tiers : Marked(size) \cap Range(Objects') = {}
          /\ particles'.Objects = particles.toSpawn
               + 4 * ( AsteroidSmall * Cardinality(Marked(AsteroidSmall))
                     + AsteroidMedium * Cardinality(Marked(AsteroidMedium))
                     + AsteroidLarge * Cardinality(Marked(AsteroidLarge)) )
          /\ Cardinality(Released(AsteroidMedium)) = 2 * Cardinality(Marked(AsteroidLarge))
          /\ Cardinality(Released(AsteroidSmall)) = 2 * Cardinality(Marked(AsteroidMedium))
          /\ Released(AsteroidLarge) = {}
          /\ \A id \in clients : sent[id] >= 0
          /\ SumOver(sent, clients) <= Cardinality(DestroyedNow("ast"))
          /\ \A id \in KilledNow :
               \/ \E a \in Range(Objects') : objs'[a].kind = "ast" /\ ~objs'[a].Destroyed /\ objs'[a].SpawnProtection = 0
               \/ \E p \in DestroyedNow("proj") : objs'[p].OwnerID # id]_vars

\* an update has just removed a destroyed Medium asteroid: its 8 particles and
\* its two Small fragments are in the world
C33_Witness ==
  /\ srvPc = "createSnapshot"
  /\ particles.Objects = 4 * AsteroidMedium
  /\ Cardinality({o \in Range(Objects) : objs[o].kind = "ast" /\ objs[o].Size = AsteroidSmall}) = 2
  /\ \A o \in Range(Objects) : objs[o].kind = "ast" => objs[o].Size = AsteroidSmall

\* how often the last Render has written to a cell
Emitted(cell) ==
  Cardinality({k \in DOMAIN renderBuf' : renderBuf'[k].row = cell[1] /\ renderBuf'[k].col = cell[2]})

\* C34: a Render writes a cursor position and the glyph of a cell only if
\* the cell's state is not the one stored by the previous Render, or the cell
\* was marked dirty, or a redraw is forced; the Render that follows
\* ForceRedraw or a Resize to another size writes every cell exactly once;
\* a Render that directly follows a Render writes nothing
C34_RenderWritesChanges ==
  [][cvPc' \in {"rendered", "restored"} =>
       LET cells == (1..termHeight) \X (1..termWidth)
           packed(cell) == prevCells[(cell[1] - 1) * termWidth + cell[2]]
           stored(cell) == Glyph(packed(cell) % cellDirtyBit)
           dirty(cell) == packed(cell) >= cellDirtyBit
       IN /\ \A k \in DOMAIN renderBuf' :
               LET cell == <<renderBuf'[k].row, renderBuf'[k].col>> IN
                 /\ cell \in cells
                 /\ renderBuf'[k].glyph = FullRedraw[cell]
                 /\ forceRedraw \/ dirty(cell) \/ FullRedraw[cell] # stored(cell)
          /\ forceRedraw => \A cell \in cells : Emitted(cell) = 1
          /\ cvPc \in {"rendered", "restored"} => renderBuf' = <<>>]_vars

\* a forced Render has written both cells of a canvas two columns wide, a
\* full block and a space
C34_Witness ==
  /\ cvPc = "rendered"
  /\ termWidth = 2
  /\ Len(renderBuf) = 2
  /\ renderBuf[1].glyph = "BlockFull"
  /\ renderBuf[2].glyph = " "

\* C35: every cursor position that the overlay of a frame asks for has,
\* with the centering offset added, a row of at least 1 and a column of at
\* least 1
C35_CursorOnTerminal ==
  \A k \in DOMAIN overlay.cursors : overlay.cursors[k].row >= 1 /\ overlay.cursors[k].col >= 1

\* the bytes of the last ReadInput call followed by those of the call that ends
ArrowBytes == lastInput.Pressed \o buf

\* C36: a ReadInput call that gets the rest of the Up-arrow sequence ESC [ A,
\* the call before it having got the beginning, stamps the up key and
\* neither escape nor the left key that the letter A stands for
C36_SplitArrowIsArrow ==
  [][/\ riPc = "select" /\ riPc' = "idle"
     /\ lastInput.Pressed # <<>> /\ buf # <<>>
     /\ ArrowBytes = <<"ESC", "[", "A">>
     => /\ "up" \in keyState'
        /\ "left" \in keyState' => "left" \in keyState
        /\ "escape" \in keyState' => "escape" \in keyState]_vars

\* the server has taken the unregistration of the session t from unregisterCh
UnregistrationDrained(t) ==
  /\ cliPc[t] = "returnedNil"
  /\ \A k \in DOMAIN unregisterCh : unregisterCh[k] # cli[t].handle

\* C37: once the server has drained the unregistration of a client, an
\* input of that client that collectInputs takes from the input channel
\* changes no handle
C37_NoInputAfterUnregister ==
  [][/\ srvPc = "collectInputs"
     /\ inputChan # <<>>
     /\ inputChan' = Tail(inputChan)
     /\ UnregistrationDrained(1)
     /\ Head(inputChan).ClientID = cli[1].handle
     => handles' = handles]_vars

\* C38: the Lives of a client are always within 0..InitialLives, and a client
\* in the Playing state has at least one life
C38_LivesInRange ==
  \A t \in ClientIds :
    /\ cli[t].Lives \in 0..InitialLives
    /\ cli[t].GameState = "Playing" => cli[t].Lives > 0

\* the client has lost its last life, restarted with InitialLives and died again
C38_Witness ==
  /\ cli[1].GameState = "Dead"
  /\ cli[1].Lives = InitialLives - 1

\* the screen position of the copy of the object that is dx worlds to the right
ScreenX(dx) == cam.X - cam.Camera.X + cam.View.Width \div 2 + dx * cam.World.Width

\* the screen position of the copy of the object that is dy worlds down
ScreenY(dy) == cam.Y - cam.Camera.Y + cam.View.Height \div 2 + dy * cam.World.Height

\* the copies of the object inside the view extended by the margin
CopiesInView ==
  {[X |-> ScreenX(dx), Y |-> ScreenY(dy)] : dx \in -1..1, dy \in -1..1} \cap
    [X : (0 - margin)..(cam.View.Width + margin), Y : (0 - margin)..(cam.View.Height + margin)]

Returned == {cam.result.Positions[k] : k \in 1..cam.result.Count}

\* the scenario: an object at world X = 2, the camera at X = 0, a view 10 wide
WrapRendering == cam.drawn /\ cam.X = 2 /\ cam.Camera.X = 0 /\ cam.View.Width = 10

====
